---- MODULE Spec2Model ----
(***************************************************************************)
(* Plugin lifecycle and extension registry of scitrera_app_framework        *)
(* (core/plugins.py), modelled on one Variables instance.                   *)
(*                                                                         *)
(* Every public function of core/plugins.py is one action; the recursive   *)
(* helper _init_plugin is a recursive operator over a record holding the   *)
(* registries, so that an exception raised half-way leaves the mutations   *)
(* made before it in place, as in the code.                                *)
(***************************************************************************)
EXTENDS Integers, Sequences, FiniteSets, TLC

\* ------------------------------------------------------------------------
\* bounds
\* ------------------------------------------------------------------------
MaxLog == 4        \* length of the startup-order list
MaxCalls == 2      \* times one plugin's shutdown, or one of its async hooks, is entered
MaxDrivers == 2    \* driver coroutines suspended at one time
MaxSources == 2    \* extra sources of the Variables instance

\* ------------------------------------------------------------------------
\* Python values
\* ------------------------------------------------------------------------
None == "None"
NOT_INIT == "NOT_INIT"
NoErr == "ok"

\* an absent (plugin, value) pair: er.get(ext) is None, or _init_plugin returned None
NoHit == [plugin |-> None, value |-> None]

\* the optional async lifecycle hooks, and the plugin methods a class can log
Hooks == {"async_ready", "async_stopping"}
Methods == {"initialize", "shutdown"} \cup Hooks

\* ------------------------------------------------------------------------
\* Plugin classes (subclasses of api.plugins.Plugin).  Fields are what the
\* overridable methods return: name(), extension_point_name(), eager,
\* is_enabled() (initial configuration), is_multi_extension(),
\* get_dependencies() (in iteration order) and the value of initialize();
\* shutdown, async_ready and async_stopping tell how the method ends: "ok",
\* "raise", or (hooks) "slow": it returns, but later than the timeout;
\* logs is the set of methods the class records in its call log.
\* ------------------------------------------------------------------------
PluginClass ==
     "A"  :> [name |-> "A",  ext |-> "a", eager |-> TRUE,  enabled |-> TRUE,  multi |-> FALSE, deps |-> << >>,    value |-> "vA", shutdown |-> "ok", async_ready |-> "ok", async_stopping |-> "ok", logs |-> {"initialize"}]
  @@ "B"  :> [name |-> "B",  ext |-> "b", eager |-> TRUE,  enabled |-> TRUE,  multi |-> FALSE, deps |-> <<"a">>, value |-> "vB", shutdown |-> "raise", async_ready |-> "ok", async_stopping |-> "ok", logs |-> {"initialize"}]
  @@ "C"  :> [name |-> "C",  ext |-> "c", eager |-> TRUE,  enabled |-> TRUE,  multi |-> FALSE, deps |-> <<"b">>, value |-> "vC", shutdown |-> "ok", async_ready |-> "ok", async_stopping |-> "ok", logs |-> {"initialize"}]
  @@ "K"  :> [name |-> "K",  ext |-> "c", eager |-> TRUE,  enabled |-> TRUE,  multi |-> FALSE, deps |-> << >>,    value |-> "vK", shutdown |-> "ok", async_ready |-> "ok", async_stopping |-> "ok", logs |-> {"initialize"}]
  @@ "L"  :> [name |-> "L",  ext |-> "l", eager |-> FALSE, enabled |-> TRUE,  multi |-> FALSE, deps |-> << >>,    value |-> "vL", shutdown |-> "ok", async_ready |-> "ok", async_stopping |-> "ok", logs |-> {"initialize"}]
  @@ "D"  :> [name |-> "D",  ext |-> "d", eager |-> TRUE,  enabled |-> TRUE,  multi |-> FALSE, deps |-> <<"l">>, value |-> "vD", shutdown |-> "ok", async_ready |-> "ok", async_stopping |-> "ok", logs |-> {"initialize"}]
  @@ "X"  :> [name |-> "X",  ext |-> "x", eager |-> TRUE,  enabled |-> TRUE,  multi |-> FALSE, deps |-> <<"y">>, value |-> "vX", shutdown |-> "ok", async_ready |-> "ok", async_stopping |-> "ok", logs |-> {"initialize"}]
  @@ "Y"  :> [name |-> "Y",  ext |-> "y", eager |-> TRUE,  enabled |-> TRUE,  multi |-> FALSE, deps |-> <<"x">>, value |-> "vY", shutdown |-> "ok", async_ready |-> "ok", async_stopping |-> "ok", logs |-> {"initialize"}]
  @@ "S"  :> [name |-> "S",  ext |-> "s", eager |-> TRUE,  enabled |-> TRUE,  multi |-> FALSE, deps |-> <<"s">>, value |-> "vS", shutdown |-> "ok", async_ready |-> "ok", async_stopping |-> "ok", logs |-> {"initialize"}]
  @@ "M1" :> [name |-> "M1", ext |-> "p", eager |-> TRUE,  enabled |-> FALSE, multi |-> TRUE,  deps |-> << >>,    value |-> "vM1", shutdown |-> "ok", async_ready |-> "ok", async_stopping |-> "ok", logs |-> {"initialize"}]
  @@ "M2" :> [name |-> "M2", ext |-> "p", eager |-> TRUE,  enabled |-> TRUE,  multi |-> TRUE,  deps |-> << >>,    value |-> "vM2", shutdown |-> "ok", async_ready |-> "ok", async_stopping |-> "ok", logs |-> {"initialize"}]
  @@ "M3" :> [name |-> "M3", ext |-> "p", eager |-> FALSE, enabled |-> FALSE, multi |-> TRUE,  deps |-> << >>,    value |-> "vM3", shutdown |-> "ok", async_ready |-> "ok", async_stopping |-> "ok", logs |-> {"initialize"}]
  @@ "P"  :> [name |-> "P",  ext |-> "ap", eager |-> TRUE, enabled |-> TRUE,  multi |-> FALSE, deps |-> << >>,    value |-> "vP", shutdown |-> "ok", async_ready |-> "ok", async_stopping |-> "ok", logs |-> Methods]
  @@ "Q"  :> [name |-> "Q",  ext |-> "aq", eager |-> TRUE, enabled |-> TRUE,  multi |-> FALSE, deps |-> << >>,    value |-> "vQ", shutdown |-> "ok", async_ready |-> "raise", async_stopping |-> "raise", logs |-> Methods]
  @@ "R"  :> [name |-> "R",  ext |-> "ar", eager |-> TRUE, enabled |-> TRUE,  multi |-> FALSE, deps |-> << >>,    value |-> "vR", shutdown |-> "raise", async_ready |-> "slow", async_stopping |-> "slow", logs |-> Methods]
  @@ "K1" :> [name |-> "K",  ext |-> "c", eager |-> TRUE,  enabled |-> TRUE,  multi |-> FALSE, deps |-> << >>,    value |-> "vK1", shutdown |-> "ok", async_ready |-> "ok", async_stopping |-> "ok", logs |-> {"initialize"}]
  @@ "K2" :> [name |-> "K",  ext |-> "c", eager |-> TRUE,  enabled |-> TRUE,  multi |-> FALSE, deps |-> << >>,    value |-> "vK2", shutdown |-> "ok", async_ready |-> "ok", async_stopping |-> "ok", logs |-> {"initialize"}]
  @@ "J"  :> [name |-> "J",  ext |-> "c", eager |-> TRUE,  enabled |-> FALSE, multi |-> FALSE, deps |-> << >>,    value |-> "vJ", shutdown |-> "ok", async_ready |-> "ok", async_stopping |-> "ok", logs |-> {"initialize"}]
  @@ "Z"  :> [name |-> "Z",  ext |-> "z", eager |-> TRUE,  enabled |-> FALSE, multi |-> FALSE, deps |-> << >>,    value |-> "vZ", shutdown |-> "ok", async_ready |-> "ok", async_stopping |-> "ok", logs |-> {"initialize"}]
  @@ "N"  :> [name |-> "N",  ext |-> "n", eager |-> TRUE,  enabled |-> TRUE,  multi |-> FALSE, deps |-> <<"a">>, value |-> "vN", shutdown |-> "ok", async_ready |-> "ok", async_stopping |-> "ok", logs |-> {"initialize"}]
  @@ "O"  :> [name |-> "O",  ext |-> "o", eager |-> TRUE,  enabled |-> TRUE,  multi |-> FALSE, deps |-> <<"b", "n">>, value |-> "vO", shutdown |-> "ok", async_ready |-> "ok", async_stopping |-> "ok", logs |-> {"initialize"}]
  @@ "E"  :> [name |-> "E",  ext |-> "e", eager |-> TRUE,  enabled |-> TRUE,  multi |-> FALSE, deps |-> <<"a", "f">>, value |-> "vE", shutdown |-> "ok", async_ready |-> "ok", async_stopping |-> "ok", logs |-> {"initialize"}]
  @@ "F"  :> [name |-> "F",  ext |-> "f", eager |-> TRUE,  enabled |-> TRUE,  multi |-> FALSE, deps |-> <<"e">>, value |-> "vF", shutdown |-> "ok", async_ready |-> "ok", async_stopping |-> "ok", logs |-> {"initialize"}]
  @@ "H"  :> [name |-> "H",  ext |-> "h", eager |-> TRUE,  enabled |-> TRUE,  multi |-> FALSE, deps |-> <<"e">>, value |-> "vH", shutdown |-> "ok", async_ready |-> "ok", async_stopping |-> "ok", logs |-> {"initialize"}]
  @@ "T"  :> [name |-> "T",  ext |-> "at", eager |-> TRUE, enabled |-> TRUE,  multi |-> FALSE, deps |-> <<"ap">>, value |-> "vT", shutdown |-> "ok", async_ready |-> "ok", async_stopping |-> "ok", logs |-> Methods]
  @@ "W"  :> [name |-> "W",  ext |-> "aw", eager |-> TRUE, enabled |-> TRUE,  multi |-> FALSE, deps |-> << >>,    value |-> "vW", shutdown |-> "ok", async_ready |-> "ok", async_stopping |-> "slow", logs |-> Methods]

Types == DOMAIN PluginClass

\* the classes an instance of each class is an instance of: K1 is a subclass
\* of K that inherits its name(); K2 is an unrelated class that returns the
\* same name()
Mro == [t \in Types |-> IF t = "K1" THEN {"K1", "K"} ELSE {t}]

isinstance(t, plugin_type) == plugin_type \in Mro[t]

\* the applications explored: each is the set of plugin classes one program
\* defines (dependency chain with a rival at "c"; lazy and disabled plugins;
\* dependency cycles; multi-extension plugins at "p")
Applications ==
  { {"A", "B", "C", "K"},
    {"L", "D", "Z"},
    {"X", "Y", "S"},
    {"M1", "M2", "M3"} }

\* the applications explored with an event loop: plugins with async hooks
\* that return, that raise, and that outlast the configured timeout
\* ('=|ASYNC_PLUGIN_READY_TIMEOUT|', '=|ASYNC_PLUGIN_STOPPING_TIMEOUT|')
AsyncApplications ==
  { {"P", "Q"},
    {"P", "R"} }

\* the application explored with the explicit drivers
DriverApplications == { {"P", "Q"} }

\* the applications explored with configuration changes: rivals at the
\* single-mode point "c" and a multi-mode plugin whose is_enabled read the
\* configuration, and classes that share one plugin name
ConfigApplications ==
  { {"K", "J", "M1"},
    {"K", "K1", "K2"} }

\* the application explored with two Variables instances
InstanceApplications == { {"A", "B", "M2"} }

\* the application explored with the switches of the automatic bridging
GateApplications == { {"P"} }

\* the application explored with the async_enabled argument: T needs P, both
\* have async hooks
OverrideApplications == { {"P", "T"} }

\* the applications explored with schedule_async_shutdown: hooks that
\* return, raise, and outlast the timeout
ScheduleApplications == { {"P", "W"} }

\* the applications explored for their dependency graphs: a diamond (O needs
\* B and N, which both need A), and a cycle (E needs A and F, F needs E)
\* with a plugin H that needs a member of the cycle
GraphApplications ==
  { {"A", "B", "N", "O"},
    {"A", "E", "F", "H"} }

Names == {PluginClass[t].name : t \in Types}
\* "u" is an extension point no plugin class offers
Exts == {PluginClass[t].ext : t \in Types} \cup {"u"}

VARIABLES
  classes,       \* the plugin classes the application defines
  pr,            \* '=|PR|' plugin registry: name -> registered class (None: absent)
  eir,           \* '=|EIR|' candidates per extension point, in set iteration order
  er,            \* '=|IR|' committed (plugin, value) per extension point
  eor,           \* '=|EOR|' multi options per extension point: dict name -> [plugin, value]
  startupOrder,  \* '=|STARTUP_ORDER|'
  collected,     \* Plugin.collected of the registered instance
  initialized,   \* Plugin.initialized of the registered instance
  enabled,       \* what is_enabled(v) returns for each class under the current configuration
  onRegistrationCalls, \* number of on_registration calls per plugin name
  loop,          \* '=|async_loop|': "none", "open" once a running loop is captured, "closed" when that loop was closed
  asyncAuto,     \* '=|ASYNC_PLUGIN_LIFECYCLE_AUTO|' (default True)
  hookCalled,    \* Plugin._async_ready_called / _async_stopping_called per hook and plugin
  callCount,     \* per plugin, how often the body of each method has been entered
  tasks,         \* coroutines handed to the loop and not yet run (plugin None: async_plugins_stopping)
  drivers,       \* async_plugins_ready / async_plugins_stopping coroutines suspended in a hook
  lastCall,      \* the last public call: arguments, outcome, hooks it invoked
  defaultInstance, \* the registries of the default Variables instance, when the calls pass another instance
  config,        \* the Variables instance: _local, _fallback_defaults, _type_fns, _keys, _sources
  os_environ,    \* os.environ, the process environment
  lastOp         \* the last call on the Variables instance: arguments and result

\* the plugin state, and the configuration state
varsP == <<classes, pr, eir, er, eor, startupOrder, collected, initialized, enabled,
           onRegistrationCalls, loop, asyncAuto, hookCalled, callCount, tasks, drivers,
           lastCall, defaultInstance>>

varsV == <<config, os_environ, lastOp>>

vars == <<varsP, varsV>>

\* ------------------------------------------------------------------------
\* helpers on sequences and dicts
\* ------------------------------------------------------------------------
SeqElems(q) == {q[i] : i \in 1..Len(q)}

InsertAt(q, i, x) == SubSeq(q, 1, i - 1) \o <<x>> \o SubSeq(q, i, Len(q))

RemoveAt(q, i) == SubSeq(q, 1, i - 1) \o SubSeq(q, i + 1, Len(q))

Perms(S) == {f \in [1..Cardinality(S) -> S] : \A i, j \in 1..Cardinality(S) : f[i] = f[j] => i = j}

\* dict (insertion ordered) as a sequence of [name, value] items
DictHas(d, n) == \E i \in 1..Len(d) : d[i].name = n

DictSet(d, n, v) ==
  IF DictHas(d, n)
  THEN [i \in 1..Len(d) |-> IF d[i].name = n THEN [name |-> n, value |-> v] ELSE d[i]]
  ELSE Append(d, [name |-> n, value |-> v])

DictGet(d, n) == d[CHOOSE i \in 1..Len(d) : d[i].name = n].value

\* ------------------------------------------------------------------------
\* api/variables.py: the Variables instance (layered key/value resolver)
\* ------------------------------------------------------------------------
\* Python values a key resolves to: str digits, the int a type function
\* makes of them, None, and the NO_MATCH / NOT_SET sentinel
Str(d) == [type |-> "str", v |-> d]
PyInt(n) == [type |-> "int", v |-> n]
PyNone == [type |-> "NoneType"]
NO_MATCH == [type |-> "NO_MATCH"]
NOT_SET == NO_MATCH

\* the key the application reads, and the names process environment
\* variables can have (a POSIX environment is case sensitive)
Keys == {"app_a"}
EnvNames == {"APP_A", "app_a"}

\* str.upper, str.lower, str.startswith and str.removeprefix on these strings
upper(k) == IF k = "app_a" THEN "APP_A" ELSE k
lower(k) == IF k = "APP_A" THEN "app_a" ELSE k
startswith(k, ps) == <<k, ps>> \in {<<"app_a", "app_">>, <<"APP_A", "APP_">>}
removeprefix(k, ps) == IF startswith(k, ps) THEN (IF k = "app_a" THEN "a" ELSE "A") ELSE k

\* is_epp(key): none of these keys is '=|...|'
is_epp(k) == FALSE

\* the type functions an application registers: int
TypeFns == {"int"}
TypeError == [type |-> "TypeError"]
\* int(match): int(None) raises TypeError
Apply(type_fn, match) == IF match.type = "NoneType" THEN TypeError ELSE PyInt(match.v)

\* the dicts an application passes as extra sources
SourceDict ==
     "D0" :> [k \in Keys |-> NO_MATCH]
  @@ "D1" :> [k \in Keys |-> Str(1)]
  @@ "D2" :> [k \in Keys |-> Str(2)]

SourceDicts == DOMAIN SourceDict

\* the Variables instances an application passes as extra sources: "V0" is
\* a fresh Variables(), which holds no key of its own and reads the process
\* environment first (its own known keys are read by nothing here and are
\* not kept)
SourceVariables == {"V0"}

EnvPlacement == {"TOP", "BOTTOM", "IGNORED", "BOTTOM2"}

\* _absorb_keys(src): the keys of the source become known keys
absorb_keys(known, src) ==
  IF src \in SourceVariables THEN known
  ELSE known \cup {k \in Keys : SourceDict[src][k] # NO_MATCH}

RECURSIVE absorb_all(_, _, _)
absorb_all(known, srcs, i) ==
  IF i > Len(srcs) THEN known ELSE absorb_all(absorb_keys(known, srcs[i]), srcs, i + 1)

\* variant of the constructor in which BOTTOM places the environment above
\* the fallback defaults
Variables_env_above_defaults(srcs, env_placement) ==
  [local |-> [k \in Keys |-> NO_MATCH],
   fallback_defaults |-> [k \in Keys |-> NO_MATCH],
   type_fns |-> [k \in Keys |-> None],
   keys |-> absorb_all({}, srcs, 1),
   sources |-> IF env_placement = "TOP"
               THEN <<"_environment", "_local">> \o srcs \o <<"_fallback_defaults">>
               ELSE IF env_placement \in {"BOTTOM", "BOTTOM2"}
               THEN <<"_local">> \o srcs \o <<"_environment", "_fallback_defaults">>
               ELSE <<"_local">> \o srcs \o <<"_fallback_defaults">>,
   bottom_offset |-> IF env_placement \in {"BOTTOM", "BOTTOM2"} THEN 2 ELSE 1,
   env_placement |-> env_placement]

\* Variables.__init__(sources, env_placement); the env_placement argument is
\* kept with the instance for the properties
Variables(srcs, env_placement) ==
  [local |-> [k \in Keys |-> NO_MATCH],
   fallback_defaults |-> [k \in Keys |-> NO_MATCH],
   type_fns |-> [k \in Keys |-> None],
   keys |-> absorb_all({}, srcs, 1),
   sources |-> IF env_placement = "TOP"
               THEN <<"_environment", "_local">> \o srcs \o <<"_fallback_defaults">>
               ELSE IF env_placement = "BOTTOM"
               THEN <<"_local">> \o srcs \o <<"_fallback_defaults", "_environment">>
               ELSE IF env_placement = "BOTTOM2"
               THEN <<"_local">> \o srcs \o <<"_environment", "_fallback_defaults">>
               ELSE <<"_local">> \o srcs \o <<"_fallback_defaults">>,
   bottom_offset |-> IF env_placement \in {"BOTTOM", "BOTTOM2"} THEN 2 ELSE 1,
   env_placement |-> env_placement]

\* source[key] for one entry of _sources; NO_MATCH stands for KeyError
\* (EnvironProxy.__getitem__ reads environ[item.upper()])
source_item(c, source, key) ==
  IF source = "_environment" THEN os_environ[upper(key)]
  ELSE IF source = "_local" THEN c.local[key]
  ELSE IF source = "_fallback_defaults" THEN c.fallback_defaults[key]
  ELSE IF source \in SourceVariables
  THEN (IF os_environ[upper(key)] # NO_MATCH THEN os_environ[upper(key)] ELSE PyNone)
  ELSE SourceDict[source][key]

\* the for loop of __getitem__, lines 147-152: the first source that has the key
RECURSIVE first_match(_, _, _)
first_match(c, key, i) ==
  IF i > Len(c.sources) THEN NO_MATCH
  ELSE IF source_item(c, c.sources[i], key) # NO_MATCH THEN source_item(c, c.sources[i], key)
  ELSE first_match(c, key, i + 1)

\* lines 143-152: the raw match of a read
raw_match(c, key, is_local) ==
  IF is_local THEN c.local[key] ELSE first_match(c, key, 1)

\* variant of __getitem__ that returns the raw match
getitem_untyped(c, key, default, is_local) ==
  IF raw_match(c, key, is_local) # NO_MATCH
  THEN [c |-> [c EXCEPT !.keys = @ \cup {key}], value |-> raw_match(c, key, is_local)]
  ELSE [c |-> c, value |-> default]

\* Variables.__getitem__(key, default=None, local=False), also get and
\* __getattr__: the instance after the call and the value returned
getitem(c, key, default, is_local) ==
  IF raw_match(c, key, is_local) # NO_MATCH
  THEN [c |-> [c EXCEPT !.keys = @ \cup {key}],
        value |-> IF c.type_fns[key] # None
                  THEN Apply(c.type_fns[key], raw_match(c, key, is_local))
                  ELSE raw_match(c, key, is_local)]
  ELSE [c |-> c, value |-> default]

\* self[key]
get(c, key) == getitem(c, key, PyNone, FALSE).value

\* lines 121-127 of environ: register the default and the type function
register_key(c, key, default, type_fn) ==
  [c EXCEPT !.fallback_defaults[key] = IF default # NOT_SET THEN default ELSE @,
            !.type_fns[key] = IF type_fn # None THEN type_fn ELSE @,
            !.keys = @ \cup {key}]

\* variant of environ that uses the default for this call only
environ_default_once(c, key, default, type_fn) ==
  getitem(register_key(c, key, NOT_SET, type_fn), key,
          IF default # NOT_SET THEN default ELSE PyNone, FALSE)

\* Variables.environ(key, default=NOT_SET, type_fn=None)
environ(c, key, default, type_fn) ==
  getitem(register_key(c, key, default, type_fn), key, PyNone, FALSE)

\* variant of set that stores the value as a default
set_as_default(c, key, value) ==
  [c EXCEPT !.fallback_defaults[key] = value, !.keys = @ \cup {key}]

\* Variables.set(key, value)
set(c, key, value) ==
  [c EXCEPT !.local[key] = value, !.keys = @ \cup {key}]

\* Variables.set_type_fn(key, type_fn)
set_type_fn(c, key, type_fn) == [c EXCEPT !.type_fns[key] = type_fn]

\* Variables.get_or_set(key, value_fn): the local value, stored from value_fn()
\* when the local overlay has none; the known keys are not touched
get_or_set(c, key, value) ==
  IF c.local[key] # NO_MATCH
  THEN [c |-> c, value |-> c.local[key]]
  ELSE [c |-> [c EXCEPT !.local[key] = value], value |-> value]

\* variant of add_source that appends the source to the end of the list
add_source_last(c, src) ==
  [c EXCEPT !.sources = Append(@, src), !.keys = absorb_keys(@, src)]

\* Variables.add_source(src)
add_source(c, src) ==
  [c EXCEPT !.sources = InsertAt(@, Len(@) - c.bottom_offset + 1, src),
            !.keys = absorb_keys(@, src)]

\* f'{prefix}{sep}' with the default sep
prefix_sep(prefix) == IF prefix = "app" THEN "app_" ELSE "APP_"

\* Variables.get_by_prefix(prefix) with the default sep='_', drop_prefix,
\* key_lower: the dict returned, as a set of (key, value) items
get_by_prefix(c, prefix) ==
  { <<lower(removeprefix(k, prefix_sep(prefix))), get(c, k)>> :
      k \in {kk \in c.keys : startswith(kk, prefix_sep(prefix))} }

\* Variables.export_all_variables(exclude_epp=True)
export_all_variables(c) ==
  { <<k, get(c, k)>> : k \in {kk \in c.keys : ~is_epp(kk)} }

\* plugin method results
is_enabled(t) == enabled[t]
is_multi_extension(t) == PluginClass[t].multi
extension_point_name(t) == PluginClass[t].ext
get_dependencies(t) == PluginClass[t].deps

\* the registries and the async state of the Variables instance, as one
\* record, with the outcome of the call in progress
Registries ==
  [pr |-> pr, eir |-> eir, er |-> er, eor |-> eor, order |-> startupOrder,
   collected |-> collected, initialized |-> initialized,
   loop |-> loop, asyncAuto |-> asyncAuto, hookCalled |-> hookCalled,
   callCount |-> callCount, tasks |-> tasks, in_loop_thread |-> FALSE,
   calls |-> << >>, hooks |-> << >>, shutdowns |-> << >>, seen |-> 0, alone |-> TRUE,
   err |-> NoErr, history |-> {}, ret |-> NoHit, value |-> None, result |-> << >>]

\* the registries as seen by a call made on the given thread: "loop" is the
\* thread the event loop runs on
CalledFrom(thread) == [Registries EXCEPT !.in_loop_thread = (thread = "loop")]

\* variant of get_captured_async_loop that does not ask whether the loop is closed
get_captured_async_loop_unchecked(s) == IF s.loop # "none" THEN s.loop ELSE None

\* get_captured_async_loop: the captured loop, None when there is none or
\* when it is closed
get_captured_async_loop(s) == IF s.loop = "open" THEN s.loop ELSE None

\* variant of _is_in_loop_thread that takes every thread for the loop thread
is_in_loop_thread_always(s) == s.loop # "none"

\* _is_in_loop_thread: False when no loop thread was captured
is_in_loop_thread(s) == s.loop # "none" /\ s.in_loop_thread

\* async_enabled = None falls back to _is_async_auto_enabled(v)
is_async_enabled(s, async_enabled) ==
  IF async_enabled = None THEN s.asyncAuto ELSE async_enabled = "True"

\* the body of a method of plugin name is entered: the plugin logs the call
Logged(s, name, method) ==
  IF method \in PluginClass[s.pr[name]].logs
  THEN [s EXCEPT !.callCount[name][method] = @ + 1]
  ELSE s

HookEvent(name, hook, how) == [plugin |-> name, hook |-> hook, how |-> how]

\* variant of bridge that blocks on the loop thread as well
bridge_always_blocks(s, name, hook) ==
  IF s.hookCalled[hook][name] \/ get_captured_async_loop(s) = None THEN s
  ELSE LET outcome == PluginClass[s.pr[name]][hook]
           s1 == Logged(s, name, hook)
       IN IF outcome = "ok"
          THEN [s1 EXCEPT !.hookCalled[hook][name] = TRUE,
                          !.hooks = Append(@, HookEvent(name, hook, "returned"))]
          ELSE IF outcome = "raise"
          THEN [s1 EXCEPT !.err = "HookError",
                          !.hooks = Append(@, HookEvent(name, hook, "raised"))]
          ELSE [s1 EXCEPT !.err = "TimeoutError",
                          !.hooks = Append(@, HookEvent(name, hook, "timeout"))]

\* ------------------------------------------------------------------------
\* automatic bridging of one hook of one plugin (_init_plugin lines 118-130,
\* shutdown_all_plugins lines 177-188).  On the loop thread the coroutine is
\* handed to create_task and the flag is set at once; on another thread the
\* caller blocks in future.result, which re-raises what the hook raised and
\* raises TimeoutError when the hook outlasts the timeout: the flag stays
\* unset then.
\* ------------------------------------------------------------------------
bridge(s, name, hook) ==
  IF s.hookCalled[hook][name] \/ get_captured_async_loop(s) = None THEN s
  ELSE IF is_in_loop_thread(s)
  THEN [s EXCEPT
          !.tasks = Append(@, [plugin |-> name, hook |-> hook]),
          !.hookCalled[hook][name] = TRUE,
          !.hooks = Append(@, HookEvent(name, hook, "scheduled"))]
  ELSE LET outcome == PluginClass[s.pr[name]][hook]
           s1 == Logged(s, name, hook)
       IN IF outcome = "ok"
          THEN [s1 EXCEPT !.hookCalled[hook][name] = TRUE,
                          !.hooks = Append(@, HookEvent(name, hook, "returned"))]
          ELSE IF outcome = "raise"
          THEN [s1 EXCEPT !.err = "HookError",
                          !.hooks = Append(@, HookEvent(name, hook, "raised"))]
          ELSE [s1 EXCEPT !.err = "TimeoutError",
                          !.hooks = Append(@, HookEvent(name, hook, "timeout"))]

\* ------------------------------------------------------------------------
\* _find_plugin_for_single_ext: the committed plugin of the extension point,
\* else the first enabled candidate in iteration order, else None
\* ------------------------------------------------------------------------
\* variant of _find_plugin_for_single_ext that takes the first candidate
\* whether it is enabled or not
find_plugin_any_candidate(s, ext_name) ==
  IF s.er[ext_name] # NoHit
  THEN s.er[ext_name].plugin
  ELSE IF s.eir[ext_name] = << >> THEN None ELSE s.eir[ext_name][1]

find_plugin_for_single_ext(s, ext_name) ==
  IF s.er[ext_name] # NoHit
  THEN s.er[ext_name].plugin
  ELSE LET options == s.eir[ext_name]
           hits == {i \in 1..Len(options) : is_enabled(s.pr[options[i]])}
       IN IF hits = {} THEN None
          ELSE options[CHOOSE i \in hits : \A j \in hits : i <= j]

\* ------------------------------------------------------------------------
\* _init_plugin, lines 104-144, in three steps
\* ------------------------------------------------------------------------
\* lines 105-109: mark collected and, when the plugin runs (it is eager or
\* needed now), call initialize; the call is logged with the registries it saw
initialize_plugin(s, name, runs) ==
  IF runs
  THEN [Logged(s, name, "initialize") EXCEPT
          !.collected[name] = TRUE,
          !.initialized[name] = TRUE,
          !.calls = Append(@, [plugin |-> name, er |-> s.er, initialized |-> s.initialized])]
  ELSE [s EXCEPT !.collected[name] = TRUE]

\* lines 111-130: the automatic bridging of async_ready, when the plugin ran
\* and async is enabled
bridge_ready(s, name, on) == IF on THEN bridge(s, name, "async_ready") ELSE s

\* lines 131-144: commit the result and record the startup order, unless
\* the bridge raised
commit_result(s, name, value) ==
  IF s.err # NoErr THEN s
  ELSE [s EXCEPT
          !.er[extension_point_name(s.pr[name])] =
             IF is_enabled(s.pr[name]) THEN [plugin |-> name, value |-> value] ELSE @,
          !.eor[extension_point_name(s.pr[name])] =
             IF is_multi_extension(s.pr[name]) THEN DictSet(@, name, value) ELSE @,
          !.order = Append(@, name),
          !.ret = [plugin |-> name, value |-> value]]

commit_plugin(s, name, now, async_enabled) ==
  LET runs == PluginClass[s.pr[name]].eager \/ now
  IN commit_result(bridge_ready(initialize_plugin(s, name, runs), name, runs /\ async_enabled),
                   name,
                   IF runs THEN PluginClass[s.pr[name]].value ELSE None)

RECURSIVE init_plugin(_, _, _, _, _)
RECURSIVE init_dependencies(_, _, _, _)

\* variant of the dependency loop in which the set of requested extension
\* points is not copied: the points resolved for one dependency stay in it
next_dependency_shared(s, name, i, requested_by) ==
  IF s.err # NoErr THEN s
  ELSE init_dependencies(s, name, i + 1, requested_by \cup {e \in Exts : s.er[e] # NoHit})

\* the dependency loop after the recursive _init_plugin of one dependency
\* returned or raised
next_dependency(s, name, i, requested_by) ==
  IF s.err # NoErr THEN s ELSE init_dependencies(s, name, i + 1, requested_by)

\* variant of init_dependencies that skips a dependency already in the request
\* chain instead of raising
init_dependencies_skip_cycle(s, name, i, requested_by) ==
  LET deps == get_dependencies(s.pr[name]) IN
  IF i > Len(deps) THEN s
  ELSE LET dep == deps[i]
           dep_plugin == find_plugin_for_single_ext(s, dep)
       IN IF dep_plugin = None THEN [s EXCEPT !.err = "DependencyNotFound"]
          ELSE IF dep \in requested_by THEN init_dependencies(s, name, i + 1, requested_by)
          ELSE next_dependency(init_plugin(s, dep_plugin, requested_by, FALSE, None),
                               name, i, requested_by)

\* _init_plugin, lines 87-96: the loop over the declared dependencies, from
\* the i-th one on; the recursive call passes neither _now nor async_enabled
init_dependencies(s, name, i, requested_by) ==
  LET deps == get_dependencies(s.pr[name]) IN
  IF i > Len(deps) THEN s
  ELSE LET dep == deps[i]
           dep_plugin == find_plugin_for_single_ext(s, dep)
       IN IF dep_plugin = None THEN [s EXCEPT !.err = "DependencyNotFound"]
          ELSE IF dep \in requested_by
          THEN [s EXCEPT !.err = "CircularDependency", !.history = requested_by]
          ELSE next_dependency(init_plugin(s, dep_plugin, requested_by, FALSE, None),
                               name, i, requested_by)

\* variant of claim_extension_point that marks the plugin collected before
\* it looks at the outcome of the dependency loop
claim_collected_first(s, name, now, async_enabled) ==
  IF s.err # NoErr THEN [s EXCEPT !.collected[name] = TRUE]
  ELSE IF s.er[extension_point_name(s.pr[name])] # NoHit /\ ~is_multi_extension(s.pr[name])
  THEN [s EXCEPT !.err = "DuplicateExtensionPoint"]
  ELSE commit_plugin(s, name, now, async_enabled)

\* _init_plugin, lines 98-144, after the dependency loop: the conflict check
\* and the commit
claim_extension_point(s, name, now, async_enabled) ==
  IF s.err # NoErr THEN s
  ELSE IF s.er[extension_point_name(s.pr[name])] # NoHit /\ ~is_multi_extension(s.pr[name])
  THEN [s EXCEPT !.err = "DuplicateExtensionPoint"]
  ELSE commit_plugin(s, name, now, async_enabled)

\* variant of init_plugin that commits the plugin before it walks its dependencies
init_plugin_deps_last(s, name, requested_by, now, async_enabled) ==
  IF s.pr[name] = None THEN [s EXCEPT !.err = "PluginNotFound"]
  ELSE
    LET t == s.pr[name]
        ext_name == extension_point_name(t)
    IN IF s.er[ext_name] # NoHit THEN [s EXCEPT !.ret = s.er[ext_name]]
       ELSE IF ~(is_enabled(t) \/ is_multi_extension(t)) THEN [s EXCEPT !.ret = NoHit]
       ELSE [init_dependencies(commit_plugin(s, name, now, is_async_enabled(s, async_enabled)),
                               name, 1, requested_by \cup {ext_name})
               EXCEPT !.ret = [plugin |-> name,
                               value |-> IF PluginClass[t].eager \/ now
                                         THEN PluginClass[t].value ELSE None]]

\* _init_plugin(name, v, _requested_by, _now, async_enabled); _requested_by =
\* None is {}
init_plugin(s, name, requested_by, now, async_enabled) ==
  IF s.pr[name] = None THEN [s EXCEPT !.err = "PluginNotFound"]
  ELSE
    LET t == s.pr[name]
        ext_name == extension_point_name(t)
        is_single == is_enabled(t)
        is_multi == is_multi_extension(t)
    IN IF s.er[ext_name] # NoHit THEN [s EXCEPT !.ret = s.er[ext_name]]
       ELSE IF ~(is_single \/ is_multi) THEN [s EXCEPT !.ret = NoHit]
       ELSE claim_extension_point(init_dependencies(s, name, 1, requested_by \cup {ext_name}),
                                  name, now, is_async_enabled(s, async_enabled))

\* ------------------------------------------------------------------------
\* the public functions, as functions of the registries
\* ------------------------------------------------------------------------
Registered(s) == {n \in Names : s.pr[n] # None}

\* register_plugin(plugin_type, v, init); pos is where the new instance lands
\* in the iteration order of the candidate set of its extension point
register(s, plugin_type, init, pos) ==
  LET name == PluginClass[plugin_type].name
      ext_name == extension_point_name(plugin_type)
      s1 == IF s.pr[name] = None
            THEN [s EXCEPT
                    !.pr[name] = plugin_type,
                    !.eir[ext_name] = InsertAt(@, pos, name),
                    !.eor[ext_name] = IF is_multi_extension(plugin_type) /\ ~DictHas(@, name)
                                      THEN DictSet(@, name, NOT_INIT) ELSE @]
            ELSE IF ~isinstance(s.pr[name], plugin_type)
            THEN [s EXCEPT !.err = "DuplicatePluginDefinition"]
            ELSE s
  IN IF s1.err = NoErr /\ init THEN init_plugin(s1, name, {}, FALSE, None) ELSE s1

\* get_extension, lines 258-261: the value of the (plugin, value) pair that
\* _init_plugin returned (unpacking None raises TypeError)
returned_value(s) ==
  IF s.err # NoErr THEN s
  ELSE IF s.ret = NoHit THEN [s EXCEPT !.err = "TypeError"]
  ELSE [s EXCEPT !.value = s.ret.value]

\* variant of get_extension that uses the committed entry only while its
\* plugin is enabled
extension_while_enabled(s, extension_point) ==
  IF s.err # NoErr THEN s
  ELSE
    LET found == find_plugin_for_single_ext(s, extension_point)
        hit == IF s.er[extension_point] # NoHit /\ is_enabled(s.pr[s.er[extension_point].plugin])
               THEN s.er[extension_point]
               ELSE [plugin |-> found, value |-> None]
    IN IF hit.plugin = None THEN [s EXCEPT !.err = "UnknownExtensionPoint"]
       ELSE IF hit.value = None /\ ~s.initialized[hit.plugin]
       THEN returned_value(init_plugin(s, hit.plugin, {}, TRUE, None))
       ELSE [s EXCEPT !.value = hit.value]

\* get_extension(extension_point, v), lines 252-262
extension(s, extension_point) ==
  IF s.err # NoErr THEN s
  ELSE
    LET found == find_plugin_for_single_ext(s, extension_point)
        hit == IF s.er[extension_point] # NoHit THEN s.er[extension_point]
               ELSE [plugin |-> found, value |-> None]
    IN IF hit.plugin = None THEN [s EXCEPT !.err = "UnknownExtensionPoint"]
       ELSE IF hit.value = None /\ ~s.initialized[hit.plugin]
       THEN returned_value(init_plugin(s, hit.plugin, {}, TRUE, None))
       ELSE [s EXCEPT !.value = hit.value]

\* get_extensions(extension_point, v), lines 283-293: the loop over the items
\* of the multi registry, from the i-th item on
RECURSIVE extensions(_, _, _)

\* get_extensions, lines 288-291: store the value _init_plugin returned for
\* the i-th item and go on with the next one
collect_returned(s, extension_point, i, name) ==
  IF s.err # NoErr THEN s
  ELSE IF s.ret = NoHit THEN [s EXCEPT !.err = "TypeError"]
  ELSE extensions([s EXCEPT !.result = DictSet(@, name, s.ret.value)], extension_point, i + 1)

extensions(s, extension_point, i) ==
  IF s.err # NoErr \/ i > Len(s.eor[extension_point]) THEN s
  ELSE
    LET item == s.eor[extension_point][i]
    IN IF item.value = NOT_INIT
       THEN collect_returned(init_plugin(s, item.name, {}, TRUE, None),
                             extension_point, i, item.name)
       ELSE extensions([s EXCEPT !.result = DictSet(@, item.name, item.value)],
                       extension_point, i + 1)

\* init_all_plugins: _init_plugin for each name of pr.keys(), in the order the
\* key set is iterated; the first exception ends the loop
RECURSIVE init_all(_, _, _, _)
init_all(s, keys, i, async_enabled) ==
  IF s.err # NoErr \/ i > Len(keys) THEN s
  ELSE init_all(init_plugin(s, keys[i], {}, FALSE, async_enabled), keys, i + 1, async_enabled)

\* the value shutdown_all_plugins looks up for a plugin (lines 163-169), and
\* whether the lookup finds an entry (it raises KeyError otherwise)
shutdown_value_found(s, name) ==
  LET t == s.pr[name]
      ext_name == extension_point_name(t)
  IN IF is_enabled(t) THEN s.er[ext_name] # NoHit
     ELSE IF is_multi_extension(t) THEN DictHas(s.eor[ext_name], name)
     ELSE TRUE

shutdown_value(s, name) ==
  LET t == s.pr[name]
      ext_name == extension_point_name(t)
  IN IF is_enabled(t) THEN s.er[ext_name].value
     ELSE IF is_multi_extension(t) THEN DictGet(s.eor[ext_name], name)
     ELSE None

\* one shutdown(v, logger, value) call as it is logged: the value it got,
\* whether it raised, how often the body of the plugin's async_stopping hook
\* had been entered by then, and whether a task for that hook was waiting
ShutdownCall(s, name) ==
  [plugin |-> name, value |-> shutdown_value(s, name),
   raised |-> PluginClass[s.pr[name]].shutdown = "raise",
   stopped |-> s.callCount[name]["async_stopping"],
   pending |-> [plugin |-> name, hook |-> "async_stopping"] \in SeqElems(s.tasks)]

\* line 190: plugin.shutdown(v, logger, value), which may raise
call_shutdown(s, name) ==
  [Logged(s, name, "shutdown") EXCEPT
     !.shutdowns = Append(@, ShutdownCall(s, name)),
     !.err = IF PluginClass[s.pr[name]].shutdown = "raise" THEN "ShutdownError" ELSE @]

\* variant of shutdown_plugin without the except clause
shutdown_plugin_propagates(s, name, async_enabled) ==
  LET s1 == IF async_enabled THEN bridge(s, name, "async_stopping") ELSE s
  IN IF s1.err # NoErr THEN s1 ELSE call_shutdown(s1, name)

\* lines 171-192 for one plugin: bridge async_stopping, then call shutdown.
\* Whatever is raised on the way, by the bridge or by shutdown, is caught
\* (line 191).
shutdown_plugin(s, name, async_enabled) ==
  LET s1 == IF async_enabled THEN bridge(s, name, "async_stopping") ELSE s
      s2 == IF s1.err # NoErr THEN s1 ELSE call_shutdown(s1, name)
  IN [s2 EXCEPT !.err = NoErr]

\* variant of shutdown_all that keeps the order of the list it is handed
\* instead of walking it backwards
RECURSIVE shutdown_all_forward(_, _, _)
shutdown_all_forward(s, i, async_enabled) ==
  IF i < 1 THEN s
  ELSE
    LET name == s.order[Len(s.order) + 1 - i]
    IN IF s.initialized[name] /\ shutdown_value_found(s, name)
       THEN shutdown_all_forward(shutdown_plugin(s, name, async_enabled), i - 1, async_enabled)
       ELSE shutdown_all_forward(s, i - 1, async_enabled)

\* shutdown_all_plugins, lines 156-192: walk the startup order from index i
\* down to 1.  A failed value lookup (KeyError) is caught and skips the
\* plugin's shutdown.
RECURSIVE shutdown_all(_, _, _)
shutdown_all(s, i, async_enabled) ==
  IF i < 1 THEN s
  ELSE
    LET name == s.order[i]
    IN IF s.initialized[name] /\ shutdown_value_found(s, name)
       THEN shutdown_all(shutdown_plugin(s, name, async_enabled), i - 1, async_enabled)
       ELSE shutdown_all(s, i - 1, async_enabled)

\* ------------------------------------------------------------------------
\* the explicit drivers async_plugins_ready / async_plugins_stopping.  A
\* driver is a coroutine: d.hook is the hook it drives, d.idx its position in
\* the startup-order list (forward for async_ready, backward for
\* async_stopping), d.awaiting the plugin whose hook it is suspended in and
\* d.log the hooks it entered and left.  drive runs the coroutine from d.idx
\* to its next await, or to its end.
\* ------------------------------------------------------------------------
NextIdx(d) == IF d.hook = "async_ready" THEN d.idx + 1 ELSE d.idx - 1

RECURSIVE drive(_, _)

\* variant of drive that enters a hook and goes on to the next plugin without
\* awaiting it
drive_no_await(s, d) ==
  IF d.idx < 1 \/ d.idx > Len(s.order)
  THEN [s |-> s, d |-> d, done |-> TRUE]
  ELSE LET name == s.order[d.idx]
       IN IF ~s.initialized[name] \/ s.hookCalled[d.hook][name]
          THEN drive(s, [d EXCEPT !.idx = NextIdx(d)])
          ELSE drive([Logged(s, name, d.hook) EXCEPT !.hookCalled[d.hook][name] = TRUE],
                     [d EXCEPT !.idx = NextIdx(d),
                               !.log = Append(@, HookEvent(name, d.hook, "entered"))])

drive(s, d) ==
  IF d.idx < 1 \/ d.idx > Len(s.order)
  THEN [s |-> s, d |-> d, done |-> TRUE]
  ELSE LET name == s.order[d.idx]
       IN IF ~s.initialized[name] \/ s.hookCalled[d.hook][name]
          THEN drive(s, [d EXCEPT !.idx = NextIdx(d)])
          ELSE [s |-> Logged(s, name, d.hook),
                d |-> [d EXCEPT !.awaiting = name,
                                !.log = Append(@, HookEvent(name, d.hook, "entered"))],
                done |-> FALSE]

\* variant of resume that lets what the hook raised end the driver
resume_propagates(s, d) ==
  LET name == d.awaiting
      raised == PluginClass[s.pr[name]][d.hook] = "raise"
      d1 == [d EXCEPT !.awaiting = None,
                      !.idx = NextIdx(d),
                      !.log = Append(@, HookEvent(name, d.hook, IF raised THEN "raised" ELSE "returned"))]
  IN IF raised THEN [s |-> [s EXCEPT !.err = "HookError"], d |-> d1, done |-> TRUE]
     ELSE drive([s EXCEPT !.hookCalled[d.hook][name] = TRUE], d1)

\* the awaited hook is over: the flag is set unless the hook raised (the
\* exception is caught and logged), and the driver goes on
resume(s, d) ==
  LET name == d.awaiting
      raised == PluginClass[s.pr[name]][d.hook] = "raise"
  IN drive(IF raised THEN s ELSE [s EXCEPT !.hookCalled[d.hook][name] = TRUE],
           [d EXCEPT !.awaiting = None,
                     !.idx = NextIdx(d),
                     !.log = Append(@, HookEvent(name, d.hook, IF raised THEN "raised" ELSE "returned"))])

DriverOp(hook) == IF hook = "async_ready" THEN "async_plugins_ready" ELSE "async_plugins_stopping"

\* ------------------------------------------------------------------------
\* state machine
\* ------------------------------------------------------------------------
Call(op, arg, init, s, shutdowns) ==
  [op |-> op, arg |-> arg, init |-> init, err |-> s.err, history |-> s.history, value |-> s.value,
   result |-> s.result, calls |-> s.calls, shutdowns |-> shutdowns,
   hooks |-> s.hooks, in_loop_thread |-> (s.loop # "none" /\ s.in_loop_thread),
   seen |-> s.seen, alone |-> s.alone]

\* the extension points a caller of this application asks for
Asked == {extension_point_name(t) : t \in classes} \cup {"u"}

StartPlugins(apps) ==
  /\ classes \in apps
  /\ pr = [n \in Names |-> None]
  /\ eir = [e \in Exts |-> << >>]
  /\ er = [e \in Exts |-> NoHit]
  /\ eor = [e \in Exts |-> << >>]
  /\ startupOrder = << >>
  /\ collected = [n \in Names |-> FALSE]
  /\ initialized = [n \in Names |-> FALSE]
  /\ enabled = [t \in Types |-> PluginClass[t].enabled]
  /\ onRegistrationCalls = [n \in Names |-> 0]
  /\ loop = "none"
  /\ asyncAuto = TRUE
  /\ hookCalled = [h \in Hooks |-> [n \in Names |-> FALSE]]
  /\ callCount = [n \in Names |-> [m \in Methods |-> 0]]
  /\ tasks = << >>
  /\ drivers = << >>
  /\ lastCall = Call("none", None, FALSE, Registries, << >>)
  /\ defaultInstance = Registries

Op(op, key, default, type_fn, value, src, result, items) ==
  [op |-> op, key |-> key, default |-> default, type_fn |-> type_fn, value |-> value,
   src |-> src, result |-> result, items |-> items]

NoOp == Op("none", None, NOT_SET, None, NOT_SET, None, NOT_SET, {})

\* Variables(): the default instance of a program that only uses plugins
DefaultVariables ==
  /\ config = Variables(<< >>, "TOP")
  /\ os_environ = [n \in EnvNames |-> NO_MATCH]
  /\ lastOp = NoOp

Start(apps) == StartPlugins(apps) /\ DefaultVariables

Init == Start(Applications)

InitAsync == Start(AsyncApplications)

InitDrivers == Start(DriverApplications)

InitConfig == Start(ConfigApplications)

InitGraph == Start(GraphApplications)

InitInstances == Start(InstanceApplications)

InitGate == Start(GateApplications)

InitOverride == Start(OverrideApplications)

InitSchedule == Start(ScheduleApplications)

\* the registries after a call; the guards cap the startup-order list and
\* the number of times one plugin's shutdown or hook is entered
Store(s) ==
  /\ Len(s.order) <= MaxLog
  /\ \A n \in Names : \A m \in Methods \ {"initialize"} : s.callCount[n][m] <= MaxCalls
  /\ pr' = s.pr
  /\ eir' = s.eir
  /\ er' = s.er
  /\ eor' = s.eor
  /\ startupOrder' = s.order
  /\ collected' = s.collected
  /\ initialized' = s.initialized
  /\ loop' = s.loop
  /\ hookCalled' = s.hookCalled
  /\ callCount' = s.callCount
  /\ tasks' = s.tasks
  /\ UNCHANGED <<classes, enabled, onRegistrationCalls, asyncAuto, varsV>>

\* a synchronous call returns (or raises): its effects are stored and the
\* call is recorded
Return(op, arg, init, s) ==
  /\ Store(s)
  /\ lastCall' = Call(op, arg, init, s, s.shutdowns)
  /\ UNCHANGED <<drivers, defaultInstance>>

\* the registries of an instance between calls
AtRest(s) ==
  [s EXCEPT !.calls = << >>, !.hooks = << >>, !.shutdowns = << >>, !.err = NoErr,
            !.history = {}, !.ret = NoHit, !.value = None, !.result = << >>]

\* a call that passes the instance v and also works on the default instance
\* returns (or raises): s is v after the call, g the default instance
ReturnBoth(op, arg, init, s, g) ==
  /\ Store(s)
  /\ Len(g.order) <= MaxLog
  /\ lastCall' = Call(op, arg, init, s, s.shutdowns)
  /\ defaultInstance' = AtRest(g)
  /\ UNCHANGED drivers

Positions(plugin_type) ==
  IF pr[PluginClass[plugin_type].name] = None
  THEN 1..(Len(eir[extension_point_name(plugin_type)]) + 1)
  ELSE {1}

\* the threads a synchronous call is made from: which thread it is matters
\* only once a loop (and its thread) is captured
CallerThreads == IF loop = "none" THEN {"other"} ELSE {"loop", "other"}

register_plugin ==
  \E plugin_type \in classes, init \in BOOLEAN, thread \in CallerThreads :
    \E pos \in Positions(plugin_type) :
      Return("register_plugin", plugin_type, init,
             register(CalledFrom(thread), plugin_type, init, pos))

get_extension ==
  \E extension_point \in Asked, thread \in CallerThreads :
    Return("get_extension", extension_point, FALSE,
           extension(CalledFrom(thread), extension_point))

\* get_extension(PluginType): registers the type with init=True first
get_extension_by_type ==
  \E plugin_type \in classes, thread \in CallerThreads :
    \E pos \in Positions(plugin_type) :
      Return("get_extension_by_type", plugin_type, TRUE,
             extension(register(CalledFrom(thread), plugin_type, TRUE, pos),
                       extension_point_name(plugin_type)))

get_extensions ==
  \E extension_point \in Asked, thread \in CallerThreads :
    Return("get_extensions", extension_point, FALSE,
           extensions(CalledFrom(thread), extension_point, 1))

\* get_extensions(PluginType): registers the type with init=True first
get_extensions_by_type ==
  \E plugin_type \in classes, thread \in CallerThreads :
    \E pos \in Positions(plugin_type) :
      Return("get_extensions_by_type", plugin_type, TRUE,
             extensions(register(CalledFrom(thread), plugin_type, TRUE, pos),
                        extension_point_name(plugin_type), 1))

\* line 247 / 278: register_plugin(extension_point, init=True) is called
\* without v and works on the default instance g; what it raises is raised
\* to the caller, whose instance is then left as it is
registered_on_default(s, g) == IF g.err # NoErr THEN [s EXCEPT !.err = g.err] ELSE s

DefaultPositions(plugin_type) ==
  IF defaultInstance.pr[PluginClass[plugin_type].name] = None
  THEN 1..(Len(defaultInstance.eir[extension_point_name(plugin_type)]) + 1)
  ELSE {1}

\* get_extension(PluginType, v) with v another instance than the default one
get_extension_by_type_explicit ==
  \E plugin_type \in classes, thread \in CallerThreads :
    \E pos \in DefaultPositions(plugin_type) :
      ReturnBoth("get_extension_by_type", plugin_type, TRUE,
                 extension(registered_on_default(CalledFrom(thread),
                                                 register(defaultInstance, plugin_type, TRUE, pos)),
                           extension_point_name(plugin_type)),
                 register(defaultInstance, plugin_type, TRUE, pos))

\* get_extensions(PluginType, v) with v another instance than the default one
get_extensions_by_type_explicit ==
  \E plugin_type \in classes, thread \in CallerThreads :
    \E pos \in DefaultPositions(plugin_type) :
      ReturnBoth("get_extensions_by_type", plugin_type, TRUE,
                 extensions(registered_on_default(CalledFrom(thread),
                                                  register(defaultInstance, plugin_type, TRUE, pos)),
                            extension_point_name(plugin_type), 1),
                 register(defaultInstance, plugin_type, TRUE, pos))

\* the async_enabled arguments callers pass
AsyncArgs == {None}

init_all_plugins ==
  \E keys \in Perms(Registered(Registries)), thread \in CallerThreads, async_enabled \in AsyncArgs :
    Return("init_all_plugins", None, FALSE,
           init_all(CalledFrom(thread), keys, 1, async_enabled))

shutdown_all_plugins ==
  \E thread \in CallerThreads, async_enabled \in AsyncArgs :
    Return("shutdown_all_plugins", None, FALSE,
           shutdown_all(CalledFrom(thread), Len(startupOrder),
                        is_async_enabled(Registries, async_enabled)))

\* the async_enabled arguments of callers that override the global setting
ExplicitAsyncArgs == {"True", "False"}

\* init_all_plugins(v, async_enabled=True/False); the call records the argument
init_all_plugins_async ==
  \E keys \in Perms(Registered(Registries)), thread \in CallerThreads,
     async_enabled \in ExplicitAsyncArgs :
    Return("init_all_plugins", async_enabled, FALSE,
           init_all(CalledFrom(thread), keys, 1, async_enabled))

\* shutdown_all_plugins(v, async_enabled=True/False)
shutdown_all_plugins_async ==
  \E thread \in CallerThreads, async_enabled \in ExplicitAsyncArgs :
    Return("shutdown_all_plugins", async_enabled, FALSE,
           shutdown_all(CalledFrom(thread), Len(startupOrder),
                        is_async_enabled(Registries, async_enabled)))

\* set_async_auto_enabled(enabled, v)
set_async_auto_enabled ==
  \E enabled_arg \in BOOLEAN :
    /\ asyncAuto' = enabled_arg
    /\ UNCHANGED <<classes, pr, eir, er, eor, startupOrder, collected, initialized, enabled,
                   onRegistrationCalls, loop, hookCalled, callCount, tasks, drivers,
                   lastCall, defaultInstance, varsV>>

\* clear_async_loop_ref(v): the loop and its thread id are forgotten
clear_async_loop_ref ==
  /\ loop' = "none"
  /\ UNCHANGED <<classes, pr, eir, er, eor, startupOrder, collected, initialized, enabled,
                 onRegistrationCalls, asyncAuto, hookCalled, callCount, tasks, drivers,
                 lastCall, defaultInstance, varsV>>

\* the captured event loop is closed (loop.is_closed() is True from now on);
\* a loop is closed when it has nothing left to run
loop_closes ==
  /\ loop = "open" /\ tasks = << >> /\ drivers = << >>
  /\ loop' = "closed"
  /\ UNCHANGED <<classes, pr, eir, er, eor, startupOrder, collected, initialized, enabled,
                 onRegistrationCalls, asyncAuto, hookCalled, callCount, tasks, drivers,
                 lastCall, defaultInstance, varsV>>

\* capture_async_loop(v), called inside the running event loop
capture_async_loop ==
  /\ loop' = "open"
  /\ UNCHANGED <<classes, pr, eir, er, eor, startupOrder, collected, initialized, enabled,
                 onRegistrationCalls, asyncAuto, hookCalled, callCount, tasks, drivers,
                 lastCall, defaultInstance, varsV>>

\* the event loop runs the oldest task made by create_task: the body of the
\* hook is entered (what it raises stays in the task)
run_task ==
  /\ tasks # << >>
  /\ Head(tasks).plugin # None
  /\ Store([Logged(Registries, Head(tasks).plugin, Head(tasks).hook) EXCEPT !.tasks = Tail(@)])
  /\ UNCHANGED <<drivers, lastCall, defaultInstance>>

\* a driver coroutine has run from r.d.idx to its next await, or to its end:
\* at the end it returns to its awaiter
Driven(r, rest) ==
  /\ Store(r.s)
  /\ UNCHANGED defaultInstance
  /\ IF r.done
     THEN /\ drivers' = rest
          /\ lastCall' = Call(DriverOp(r.d.hook), None, FALSE,
                              [r.s EXCEPT !.hooks = r.d.log, !.seen = r.d.seen,
                                          !.alone = r.d.alone, !.in_loop_thread = TRUE],
                              << >>)
     ELSE /\ drivers' = Append(rest, r.d)
          /\ UNCHANGED lastCall

\* a coroutine on the loop awaits a driver: hook = "async_ready" is
\* async_plugins_ready(v, capture_loop=True), which captures the loop first,
\* hook = "async_stopping" is async_plugins_stopping(v)
StartDriver(hook) ==
  LET s == [Registries EXCEPT !.loop = IF hook = "async_ready" THEN "open" ELSE @]
      d == [hook |-> hook,
            idx |-> IF hook = "async_ready" THEN 1 ELSE Len(startupOrder),
            seen |-> Len(startupOrder),
            awaiting |-> None,
            alone |-> drivers = << >>,
            log |-> << >>]
      r == drive(s, d)
  IN /\ Len(drivers) < MaxDrivers
     /\ Driven(r, IF r.done THEN drivers
                  ELSE [i \in 1..Len(drivers) |-> [drivers[i] EXCEPT !.alone = FALSE]])

async_plugins_ready == StartDriver("async_ready")

async_plugins_stopping == StartDriver("async_stopping")

\* the hook a driver awaits is over and the driver is resumed
hook_returns ==
  \E i \in 1..Len(drivers) :
    Driven(resume(Registries, drivers[i]), RemoveAt(drivers, i))

\* ------------------------------------------------------------------------
\* schedule_async_shutdown(v, timeout): async_plugins_stopping(v) is handed
\* to the captured loop with run_coroutine_threadsafe and the caller blocks
\* in future.result(timeout)
\* ------------------------------------------------------------------------
\* the async_plugins_stopping(v) coroutine before its first step
stopping_coroutine ==
  [hook |-> "async_stopping", idx |-> Len(startupOrder), seen |-> Len(startupOrder),
   awaiting |-> None, alone |-> drivers = << >>, log |-> << >>]

\* the coroutine runs on the loop while the caller waits: hooks that return
\* or raise are over within the timeout, a hook that outlasts it is not
RECURSIVE run_until_timeout(_)
run_until_timeout(r) ==
  IF r.done THEN r
  ELSE IF PluginClass[r.s.pr[r.d.awaiting]][r.d.hook] = "slow" THEN r
  ELSE run_until_timeout(resume(r.s, r.d))

\* variant of schedule_result that reports success when the coroutine was
\* handed to the loop
schedule_result_scheduled(r) == "True"

\* lines 527-536: True when future.result returned, False on a timeout
schedule_result(r) == IF r.done THEN "True" ELSE "False"

\* the call made from another thread returns; on a timeout the coroutine is
\* not cancelled: it stays suspended in the hook it awaits
Scheduled(r) ==
  /\ Store(r.s)
  /\ drivers' = IF r.done THEN drivers
                ELSE Append([i \in 1..Len(drivers) |-> [drivers[i] EXCEPT !.alone = FALSE]], r.d)
  /\ lastCall' = Call("schedule_async_shutdown", None, FALSE,
                      [r.s EXCEPT !.value = schedule_result(r), !.hooks = r.d.log,
                                  !.seen = r.d.seen, !.alone = r.d.alone],
                      << >>)
  /\ UNCHANGED defaultInstance

\* without a captured open loop the call returns False at once (lines
\* 519-521).  Called on the loop thread it blocks the loop, so that the
\* coroutine cannot start before the timeout: it is left with the loop.
\* Called from another thread, the loop first runs what it was handed before
\* (the call is taken once those tasks have run).
schedule_async_shutdown ==
  \E thread \in CallerThreads :
    IF get_captured_async_loop(Registries) = None
    THEN Return("schedule_async_shutdown", None, FALSE,
                [CalledFrom(thread) EXCEPT !.value = "False"])
    ELSE IF thread = "loop"
    THEN /\ Len(drivers) + Len(SelectSeq(tasks, LAMBDA task : task.plugin = None)) < MaxDrivers
         /\ Return("schedule_async_shutdown", None, FALSE,
                   [CalledFrom(thread) EXCEPT
                      !.value = "False",
                      !.tasks = Append(@, [plugin |-> None, hook |-> "async_stopping"])])
    ELSE /\ tasks = << >>
         /\ Len(drivers) < MaxDrivers
         /\ Scheduled(run_until_timeout(drive(CalledFrom(thread), stopping_coroutine)))

\* the loop starts the async_plugins_stopping coroutine that a timed-out
\* schedule_async_shutdown left with it
run_scheduled_shutdown ==
  /\ tasks # << >>
  /\ Head(tasks).plugin = None
  /\ Len(drivers) < MaxDrivers
  /\ LET r == drive([Registries EXCEPT !.tasks = Tail(@)], stopping_coroutine)
     IN Driven(r, IF r.done THEN drivers
                  ELSE [i \in 1..Len(drivers) |-> [drivers[i] EXCEPT !.alone = FALSE]])

Next ==
  \/ register_plugin
  \/ get_extension
  \/ get_extension_by_type
  \/ get_extensions
  \/ get_extensions_by_type
  \/ init_all_plugins
  \/ shutdown_all_plugins

Spec == Init /\ [][Next]_vars

\* ------------------------------------------------------------------------
\* programs that read and write configuration through one Variables
\* instance (no plugin is registered)
\* ------------------------------------------------------------------------
\* the values callers write, pass as defaults and find in the environment
SetValues == {Str(3), Str(4)}
Defaults == {Str(5), Str(6)}
EnvValues == {Str(7)}

\* the sources= arguments of the constructor
InitialSources == {<< >>, <<"D1">>}

InitVariables ==
  /\ StartPlugins({{}})
  /\ \E srcs \in InitialSources, env_placement \in EnvPlacement :
       config = Variables(srcs, env_placement)
  /\ os_environ \in [EnvNames -> {NO_MATCH} \cup EnvValues]
  /\ lastOp = NoOp

\* the extra sources of the instance
ExtraSources(c) == SelectSeq(c.sources, LAMBDA x : x \in SourceDicts \cup SourceVariables)

\* v.get(key, default, local) / v[key] / v.key
Variables_get ==
  \E key \in Keys, default \in {PyNone} \cup Defaults, is_local \in BOOLEAN :
    /\ config' = getitem(config, key, default, is_local).c
    /\ lastOp' = Op(IF is_local THEN "get_local" ELSE "get", key, default, None, NOT_SET, None,
                    getitem(config, key, default, is_local).value, {})
    /\ UNCHANGED <<varsP, os_environ>>

\* v.environ(key, default, type_fn)
Variables_environ ==
  \E key \in Keys, default \in {NOT_SET} \cup Defaults, type_fn \in {None} \cup TypeFns :
    /\ config' = environ(config, key, default, type_fn).c
    /\ lastOp' = Op("environ", key, default, type_fn, NOT_SET, None,
                    environ(config, key, default, type_fn).value, {})
    /\ UNCHANGED <<varsP, os_environ>>

\* v.set(key, value)
Variables_set ==
  \E key \in Keys, value \in SetValues :
    /\ config' = set(config, key, value)
    /\ lastOp' = Op("set", key, NOT_SET, None, value, None, value, {})
    /\ UNCHANGED <<varsP, os_environ>>

\* v.set_type_fn(key, type_fn)
Variables_set_type_fn ==
  \E key \in Keys, type_fn \in TypeFns :
    /\ config' = set_type_fn(config, key, type_fn)
    /\ lastOp' = Op("set_type_fn", key, NOT_SET, type_fn, NOT_SET, None, PyNone, {})
    /\ UNCHANGED <<varsP, os_environ>>

\* v.get_or_set(key, value_fn)
Variables_get_or_set ==
  \E key \in Keys, value \in SetValues :
    /\ config' = get_or_set(config, key, value).c
    /\ lastOp' = Op("get_or_set", key, NOT_SET, None, value, None,
                    get_or_set(config, key, value).value, {})
    /\ UNCHANGED <<varsP, os_environ>>

\* v.add_source(src)
Variables_add_source ==
  \E src \in SourceDicts :
    /\ Len(ExtraSources(config)) < MaxSources
    /\ config' = add_source(config, src)
    /\ lastOp' = Op("add_source", None, NOT_SET, None, NOT_SET, src, PyNone, {})
    /\ UNCHANGED <<varsP, os_environ>>

\* v.get_by_prefix(prefix)
Variables_get_by_prefix ==
  \E prefix \in {"app", "APP"} :
    /\ lastOp' = Op("get_by_prefix", prefix, NOT_SET, None, NOT_SET, None, PyNone,
                    get_by_prefix(config, prefix))
    /\ UNCHANGED <<varsP, config, os_environ>>

\* v.export_all_variables()
Variables_export_all_variables ==
  /\ lastOp' = Op("export_all_variables", None, NOT_SET, None, NOT_SET, None, PyNone,
                  export_all_variables(config))
  /\ UNCHANGED <<varsP, config, os_environ>>

NextVariables ==
  \/ Variables_get
  \/ Variables_environ
  \/ Variables_set
  \/ Variables_set_type_fn
  \/ Variables_get_or_set
  \/ Variables_add_source
  \/ Variables_get_by_prefix
  \/ Variables_export_all_variables

SpecVariables == InitVariables /\ [][NextVariables]_vars

\* ------------------------------------------------------------------------
\* programs that chain Variables instances: another instance is passed as a
\* source to the constructor or to add_source
\* ------------------------------------------------------------------------
NestedSources == {<< >>, <<"D0">>, <<"V0">>}

InitNested ==
  /\ StartPlugins({{}})
  /\ \E srcs \in NestedSources, env_placement \in EnvPlacement :
       config = Variables(srcs, env_placement)
  /\ os_environ \in [EnvNames -> {NO_MATCH} \cup EnvValues]
  /\ lastOp = NoOp

\* v.add_source(other), other being a Variables instance
Variables_add_variables ==
  \E src \in SourceVariables :
    /\ Len(ExtraSources(config)) < MaxSources
    /\ config' = add_source(config, src)
    /\ lastOp' = Op("add_source", None, NOT_SET, None, NOT_SET, src, PyNone, {})
    /\ UNCHANGED <<varsP, os_environ>>

NextNested ==
  \/ Variables_get
  \/ Variables_environ
  \/ Variables_set
  \/ Variables_add_source
  \/ Variables_add_variables

SpecNested == InitNested /\ [][NextNested]_vars


\* the configuration changes (v.set of a key that is_enabled(v) of a plugin
\* class reads): is_enabled of the class flips
configure ==
  \E t \in classes :
    /\ enabled' = [enabled EXCEPT ![t] = ~@]
    /\ lastCall' = Call("configure", t, FALSE, Registries, << >>)
    /\ UNCHANGED <<classes, pr, eir, er, eor, startupOrder, collected, initialized,
                   onRegistrationCalls, loop, asyncAuto, hookCalled, callCount, tasks, drivers,
                   defaultInstance, varsV>>

\* programs that change the configuration between calls, and programs that
\* register several classes under one plugin name
NextConfig ==
  \/ register_plugin
  \/ get_extension
  \/ get_extensions
  \/ init_all_plugins
  \/ shutdown_all_plugins
  \/ configure

SpecConfig == InitConfig /\ [][NextConfig]_vars

\* programs that keep their plugins in a Variables instance of their own,
\* which they pass to every call
NextInstances ==
  \/ register_plugin
  \/ get_extension
  \/ get_extension_by_type_explicit
  \/ get_extensions
  \/ get_extensions_by_type_explicit
  \/ init_all_plugins
  \/ shutdown_all_plugins

SpecInstances == InitInstances /\ [][NextInstances]_vars

\* programs that switch the automatic bridging on and off, globally and
\* per call, and that capture, clear and close the event loop
NextGate ==
  \/ register_plugin
  \/ init_all_plugins
  \/ shutdown_all_plugins
  \/ set_async_auto_enabled
  \/ capture_async_loop
  \/ clear_async_loop_ref
  \/ loop_closes
  \/ run_task
  \/ async_plugins_stopping
  \/ hook_returns

SpecGate == InitGate /\ [][NextGate]_vars

\* programs that pass async_enabled to init_all_plugins and
\* shutdown_all_plugins
NextOverride ==
  \/ register_plugin
  \/ init_all_plugins_async
  \/ shutdown_all_plugins_async
  \/ set_async_auto_enabled
  \/ capture_async_loop
  \/ run_task

SpecOverride == InitOverride /\ [][NextOverride]_vars

\* programs that ask for the async shutdown from synchronous code
NextSchedule ==
  \/ register_plugin
  \/ capture_async_loop
  \/ clear_async_loop_ref
  \/ loop_closes
  \/ schedule_async_shutdown
  \/ run_scheduled_shutdown
  \/ run_task
  \/ hook_returns

SpecSchedule == InitSchedule /\ [][NextSchedule]_vars

\* programs whose plugins share dependencies or depend on each other
NextGraph ==
  \/ register_plugin
  \/ get_extension
  \/ init_all_plugins
  \/ shutdown_all_plugins

SpecGraph == InitGraph /\ [][NextGraph]_vars

\* programs that capture an event loop and leave the async hooks to the
\* automatic bridging: synchronous calls from the loop thread and from
\* another thread
NextAsync ==
  \/ register_plugin
  \/ init_all_plugins
  \/ shutdown_all_plugins
  \/ capture_async_loop
  \/ run_task

SpecAsync == InitAsync /\ [][NextAsync]_vars

\* programs that await the explicit drivers on the event loop, between
\* registrations from either thread
NextDrivers ==
  \/ register_plugin
  \/ run_task
  \/ async_plugins_ready
  \/ async_plugins_stopping
  \/ hook_returns

SpecDrivers == InitDrivers /\ [][NextDrivers]_vars

TypeOK ==
  /\ \A n \in Names : pr[n] \in Types \cup {None}
  /\ \A e \in Exts : SeqElems(eir[e]) \subseteq Names
  /\ Len(startupOrder) <= MaxLog
  /\ loop \in {"none", "open", "closed"}
  /\ Len(drivers) <= MaxDrivers

\* ========================================================================
\* Properties
\* ========================================================================
CallNames(q) == [i \in 1..Len(q) |-> q[i].plugin]

ClassOf(reg, n) == PluginClass[reg[n]]

\* n is registered (in reg), enabled, single-mode and the only candidate of its point
SoleOwner(reg, cands, n) ==
  /\ reg[n] # None
  /\ is_enabled(reg[n])
  /\ ~is_multi_extension(reg[n])
  /\ cands[ClassOf(reg, n).ext] = <<n>>

\* the call that just returned asked for plugin n to be initialized: by
\* register(type, init=true), by get_extension(type) or by get_extension(point)
Initializes(call, reg, cands, n) ==
  /\ reg[n] # None
  /\ \/ /\ call.op = "register_plugin"
        /\ call.init
        /\ PluginClass[call.arg].name = n
     \/ /\ call.op = "get_extension_by_type"
        /\ PluginClass[call.arg].name = n
     \/ /\ call.op = "get_extension"
        /\ call.arg = ClassOf(reg, n).ext
        /\ cands[call.arg] = <<n>>

\* the plugin names of the application
AppNames == {PluginClass[t].name : t \in classes}

\* a, b, c form the chain c -> b -> a of eager plugins
EagerChain(reg, cands, a, b, c) ==
  /\ a # b /\ b # c /\ a # c
  /\ \A n \in {a, b, c} : SoleOwner(reg, cands, n) /\ ClassOf(reg, n).eager
  /\ get_dependencies(reg[c]) = <<ClassOf(reg, b).ext>>
  /\ get_dependencies(reg[b]) = <<ClassOf(reg, a).ext>>
  /\ get_dependencies(reg[a]) = << >>

\* C1: dependency ordering.  When C depends on B's point and B on A's, all
\* three eager and none initialized or committed, a call that initializes C
\* runs initialize on A, then B, then C, and appends A, B, C to the
\* startup-order list (which is [A, B, C] when it was empty).
C1_DependencyOrder ==
  [][\A c \in AppNames :
       Initializes(lastCall', pr', eir', c) =>
         \A a, b \in AppNames :
           ( /\ EagerChain(pr', eir', a, b, c)
             /\ \A n \in {a, b, c} : ~initialized[n] /\ er[ClassOf(pr', n).ext] = NoHit )
           => /\ lastCall'.err = NoErr
              /\ CallNames(lastCall'.calls) = <<a, b, c>>
              /\ startupOrder' = startupOrder \o <<a, b, c>>]_vars

C1_Witness ==
  /\ lastCall.op = "get_extension"
  /\ lastCall.arg = "c"
  /\ CallNames(lastCall.calls) = <<"A", "B", "C">>
  /\ startupOrder = <<"A", "B", "C">>

IsInitialized(n) == initialized[n]

\* C2: shutdown order.  One shutdown_all_plugins pass calls shutdown exactly
\* on the initialized plugins of the startup-order list, in the reverse of
\* the order of that list.
C2_ShutdownReverse ==
  lastCall.op = "shutdown_all_plugins" =>
    LET started == SelectSeq(startupOrder, IsInitialized)
        downs == CallNames(lastCall.shutdowns)
    IN /\ Len(downs) = Len(started)
       /\ \A i \in 1..Len(started) : downs[i] = started[Len(started) + 1 - i]

C2_Witness ==
  /\ lastCall.op = "shutdown_all_plugins"
  /\ startupOrder = <<"A", "B", "C">>
  /\ CallNames(lastCall.shutdowns) = <<"C", "B", "A">>

\* C3: whenever a plugin's initialize is invoked, every declared dependency
\* extension point is committed and the plugin that owns it has had its own
\* initialize run.
C3_DependenciesInitialized ==
  \A i \in 1..Len(lastCall.calls) :
    LET c == lastCall.calls[i]
        deps == get_dependencies(pr[c.plugin])
    IN \A j \in 1..Len(deps) :
         /\ c.er[deps[j]] # NoHit
         /\ c.initialized[c.er[deps[j]].plugin]

\* the dependency graph of the registered enabled plugins
DepEdge(reg, n, m) ==
  /\ reg[n] # None /\ reg[m] # None
  /\ is_enabled(reg[n]) /\ is_enabled(reg[m])
  /\ \E j \in 1..Len(get_dependencies(reg[n])) :
       get_dependencies(reg[n])[j] = ClassOf(reg, m).ext

RECURSIVE Reachable(_, _)
Reachable(reg, S) ==
  LET T == S \cup {m \in AppNames : \E n \in S : DepEdge(reg, n, m)}
  IN IF T = S THEN S ELSE Reachable(reg, T)

OnCycle(reg, n) == \E m \in AppNames : DepEdge(reg, n, m) /\ n \in Reachable(reg, {m})

ForcesInit(call, n) ==
  \/ /\ call.op = "register_plugin"
     /\ call.init
     /\ PluginClass[call.arg].name = n
  \/ /\ call.op = "get_extension_by_type"
     /\ PluginClass[call.arg].name = n

\* C5: conflict detection.  Two enabled non-multi plugins are registered at
\* one extension point and the first is committed there: forcing the
\* initialization of the second raises the duplicate-extension-point error.
C5_ConflictRaises ==
  \A n \in AppNames :
    ( /\ pr[n] # None
      /\ ForcesInit(lastCall, n)
      /\ is_enabled(pr[n]) /\ ~is_multi_extension(pr[n])
      /\ er[ClassOf(pr, n).ext] # NoHit
      /\ er[ClassOf(pr, n).ext].plugin # n
      /\ ~is_multi_extension(pr[er[ClassOf(pr, n).ext].plugin]) )
    => lastCall.err = "DuplicateExtensionPoint"

\* C6: get_extension on the extension point of a registered, enabled, lazy
\* plugin returns the value of that plugin's initialize and leaves the plugin
\* marked initialized, whatever calls came before.
C6_LazyGetExtension ==
  \A n \in AppNames :
    ( /\ pr[n] # None
      /\ lastCall.op = "get_extension"
      /\ lastCall.arg = ClassOf(pr, n).ext
      /\ is_enabled(pr[n]) /\ ~ClassOf(pr, n).eager
      /\ eir[lastCall.arg] = <<n>> )
    => /\ lastCall.err = NoErr
       /\ lastCall.value = ClassOf(pr, n).value
       /\ initialized[n]

\* the extension point a get_extensions call collected
CollectedPoint(call) ==
  IF call.op = "get_extensions" THEN call.arg ELSE extension_point_name(call.arg)

Collects(call) == call.op \in {"get_extensions", "get_extensions_by_type"} /\ call.err = NoErr

\* the multi-mode plugins registered at an extension point
MultiAt(e) ==
  {n \in AppNames : pr[n] # None /\ is_multi_extension(pr[n]) /\ ClassOf(pr, n).ext = e}

\* C7: after get_extensions(P) returns, the result has exactly one entry per
\* multi-mode plugin registered at P, keyed by plugin name, and each of these
\* plugins is marked initialized.
C7_ExtensionsAllInitialized ==
  Collects(lastCall) =>
    LET P == CollectedPoint(lastCall)
        result == lastCall.result
    IN /\ Len(result) = Cardinality(MultiAt(P))
       /\ {result[i].name : i \in 1..Len(result)} = MultiAt(P)
       /\ \A n \in MultiAt(P) : initialized[n]

\* C8: in the map returned by get_extensions(P), the entry of plugin n holds
\* the value returned by the initialize of plugin n.
C8_ExtensionsOwnValue ==
  Collects(lastCall) =>
    \A i \in 1..Len(lastCall.result) :
      lastCall.result[i].value = ClassOf(pr, lastCall.result[i].name).value

\* C9: each plugin appears at most once in the startup-order list.
C9_StartupOrderNoDuplicates ==
  \A i, j \in 1..Len(startupOrder) : startupOrder[i] = startupOrder[j] => i = j

\* C10: the on_registration hook of a plugin has fired exactly once as soon
\* as its name is registered, and never fires again.
C10_OnRegistrationOnce ==
  \A n \in AppNames : pr[n] # None => onRegistrationCalls[n] = 1

\* C11: over any sequence of register, init_all, get_extension and
\* get_extensions calls, the initialize of each registered plugin is entered
\* at most once, single-mode or multi-mode, enabled or not.
C11_InitializeAtMostOnce ==
  \A n \in AppNames : callCount[n]["initialize"] <= 1

\* C12: the shutdown of each plugin is entered at most once over the life of
\* the configuration instance, however many shutdown_all_plugins passes run.
C12_ShutdownAtMostOnce ==
  \A n \in AppNames : callCount[n]["shutdown"] <= 1

\* the plugins whose shutdown one pass called
ShutDown(call) == {call.shutdowns[j].plugin : j \in 1..Len(call.shutdowns)}

\* C13: partial-failure isolation.  In a shutdown_all_plugins pass in which
\* the shutdown of some plugin raises, nothing is raised to the caller and
\* every plugin of the startup-order list that is marked initialized has its
\* shutdown called.
C13_ShutdownIsolation ==
  ( /\ lastCall.op = "shutdown_all_plugins"
    /\ \E j \in 1..Len(lastCall.shutdowns) : lastCall.shutdowns[j].raised )
  => /\ lastCall.err = NoErr
     /\ \A i \in 1..Len(startupOrder) :
          initialized[startupOrder[i]] => startupOrder[i] \in ShutDown(lastCall)

C13_Witness ==
  /\ lastCall.op = "shutdown_all_plugins"
  /\ lastCall.err = NoErr
  /\ startupOrder = <<"A", "B", "C">>
  /\ Len(lastCall.shutdowns) = 3
  /\ lastCall.shutdowns[2].plugin = "B" /\ lastCall.shutdowns[2].raised
  /\ lastCall.shutdowns[3].plugin = "A"

DriverOps == {"async_plugins_ready", "async_plugins_stopping"}

HookOf(op) == IF op = "async_plugins_ready" THEN "async_ready" ELSE "async_stopping"

\* C14: idempotence of the explicit drivers.  When a driver is awaited twice
\* in sequence (no other driver running beside either run, no other call
\* returning in between), then after the second run the hook of every
\* initialized plugin the first run saw has been entered exactly once.
C14_DriverTwiceOnce ==
  [][( /\ Len(drivers') < Len(drivers)
       /\ lastCall.op \in DriverOps
       /\ lastCall'.op = lastCall.op
       /\ lastCall.alone /\ lastCall'.alone )
     => \A i \in 1..lastCall.seen :
          initialized[startupOrder[i]]
            => callCount'[startupOrder[i]][HookOf(lastCall.op)] = 1]_vars

\* C15: whatever the order or interleaving of automatic bridging and
\* explicit driver runs, overlapping runs and raising hooks included, the
\* async_ready hook and the async_stopping hook of a plugin are each entered
\* at most once.
C15_HookAtMostOnce ==
  \A n \in AppNames : \A h \in Hooks : callCount[n][h] <= 1

\* the position of a plugin in the startup-order list
Pos(n) == CHOOSE i \in 1..Len(startupOrder) : startupOrder[i] = n

\* the log of a driver: every hook that is entered is left before the next
\* one is entered, and the plugins come in the order of the startup-order
\* list, forward for async_ready and backward for async_stopping
OrderedLog(log, hook) ==
  /\ \A k \in 1..Len(log) :
       /\ log[k].hook = hook
       /\ IF k % 2 = 1
          THEN log[k].how = "entered"
          ELSE log[k].how \in {"returned", "raised"} /\ log[k].plugin = log[k - 1].plugin
  /\ \A j, k \in 1..Len(log) :
       (j < k /\ log[j].how = "entered" /\ log[k].how = "entered")
       => IF hook = "async_ready"
          THEN Pos(log[j].plugin) < Pos(log[k].plugin)
          ELSE Pos(log[j].plugin) > Pos(log[k].plugin)

\* C16: the explicit drivers preserve order.  The ready driver enters and
\* fully awaits the async_ready hooks of the initialized plugins in forward
\* startup order, the stopping driver the async_stopping hooks in reverse
\* startup order, each hook being over before the next plugin's hook starts.
C16_DriversInOrder ==
  /\ lastCall.op \in DriverOps => OrderedLog(lastCall.hooks, HookOf(lastCall.op))
  /\ \A i \in 1..Len(drivers) : OrderedLog(drivers[i].log, drivers[i].hook)

C16_Witness ==
  /\ lastCall.op = "async_plugins_stopping"
  /\ startupOrder = <<"P", "Q">>
  /\ lastCall.hooks = << HookEvent("Q", "async_stopping", "entered"),
                         HookEvent("Q", "async_stopping", "raised"),
                         HookEvent("P", "async_stopping", "entered"),
                         HookEvent("P", "async_stopping", "returned") >>

\* the plugins whose hook a call entered
Entered(call) ==
  {call.hooks[k].plugin : k \in {j \in 1..Len(call.hooks) : call.hooks[j].how = "entered"}}

\* C17: an exception raised by one plugin's hook in an explicit driver is not
\* raised to the awaiting caller, and the hook of every other initialized
\* plugin of the list is still entered by the run (unless its guard flag was
\* set by another run or by the automatic bridging).
C17_DriverIsolation ==
  lastCall.op \in DriverOps =>
    /\ lastCall.err = NoErr
    /\ \A i \in 1..lastCall.seen :
         initialized[startupOrder[i]] =>
           \/ startupOrder[i] \in Entered(lastCall)
           \/ hookCalled[HookOf(lastCall.op)][startupOrder[i]]

C17_Witness ==
  /\ lastCall.op = "async_plugins_ready"
  /\ lastCall.err = NoErr
  /\ startupOrder = <<"Q", "P">>
  /\ lastCall.hooks = << HookEvent("Q", "async_ready", "entered"),
                         HookEvent("Q", "async_ready", "raised"),
                         HookEvent("P", "async_ready", "entered"),
                         HookEvent("P", "async_ready", "returned") >>

\* C18: when the automatic bridging of async_ready from a thread other than
\* the loop thread ends in an exception or a timeout, nothing is raised to
\* the caller of register_plugin / init_all_plugins, and the plugin is
\* committed and appended to the startup-order list.
C18_ReadyFailureSuppressed ==
  \A k \in 1..Len(lastCall.hooks) :
    LET e == lastCall.hooks[k]
    IN (lastCall.op \notin DriverOps /\ e.hook = "async_ready" /\ e.how \in {"raised", "timeout"})
       => /\ lastCall.err = NoErr
          /\ e.plugin \in SeqElems(startupOrder)
          /\ er[ClassOf(pr, e.plugin).ext] # NoHit

\* C19: cross-thread automatic bridging blocks.  With a loop captured, a
\* call made from another thread that runs the initialize of a plugin whose
\* async_ready hook returns in time has entered and left that hook when it
\* returns; a shutdown_all_plugins pass made from another thread has entered
\* and left the async_stopping hook of a plugin, when it returns in time,
\* before it calls the shutdown of that plugin.
C19_CrossThreadBlocks ==
  [][\A n \in AppNames :
       ( /\ loop = "open" /\ asyncAuto
         /\ pr'[n] # None
         /\ ~lastCall'.in_loop_thread )
       => /\ ( /\ callCount'[n]["initialize"] = callCount[n]["initialize"] + 1
               /\ ~hookCalled["async_ready"][n]
               /\ ClassOf(pr', n).async_ready = "ok" )
             => /\ callCount'[n]["async_ready"] = callCount[n]["async_ready"] + 1
                /\ hookCalled'["async_ready"][n]
                /\ HookEvent(n, "async_ready", "returned") \in SeqElems(lastCall'.hooks)
          /\ ( /\ callCount'[n]["shutdown"] = callCount[n]["shutdown"] + 1
               /\ ~hookCalled["async_stopping"][n]
               /\ ClassOf(pr', n).async_stopping = "ok" )
             => /\ hookCalled'["async_stopping"][n]
                /\ \A j \in 1..Len(lastCall'.shutdowns) :
                     lastCall'.shutdowns[j].plugin = n
                       => /\ lastCall'.shutdowns[j].stopped = callCount[n]["async_stopping"] + 1
                          /\ ~lastCall'.shutdowns[j].pending]_vars

C19_Witness ==
  /\ lastCall.op = "shutdown_all_plugins"
  /\ ~lastCall.in_loop_thread
  /\ loop = "open"
  /\ callCount["P"]["async_ready"] = 1 /\ tasks = << >>
  /\ lastCall.hooks = << HookEvent("P", "async_stopping", "returned") >>
  /\ Len(lastCall.shutdowns) = 1
  /\ lastCall.shutdowns[1].plugin = "P" /\ lastCall.shutdowns[1].stopped = 1

\* the async_stopping hooks a shutdown_all_plugins pass ran or scheduled
\* through the automatic bridging, paired with the shutdown calls it made
Bridged(call) ==
  {<<k, j>> \in (1..Len(call.hooks)) \X (1..Len(call.shutdowns)) :
     /\ call.hooks[k].hook = "async_stopping"
     /\ call.hooks[k].how \in {"scheduled", "returned"}
     /\ call.shutdowns[j].plugin = call.hooks[k].plugin}

\* C20, as claimed: for every plugin whose async_stopping hook the automatic
\* bridging of shutdown_all_plugins runs, the body of the hook has run
\* before the plugin's shutdown is called, on the loop thread as well as
\* from another thread.
C20_StoppingBeforeShutdown ==
  lastCall.op = "shutdown_all_plugins" =>
    \A b \in Bridged(lastCall) :
      /\ ~lastCall.shutdowns[b[2]].pending
      /\ lastCall.shutdowns[b[2]].stopped >= 1

\* C20, amended: from another thread the body of the hook has run before the
\* plugin's shutdown is called; on the loop thread the hook is only handed
\* to the loop, and it is still waiting to run when shutdown is called.
C20_StoppingBeforeShutdownCrossThread ==
  lastCall.op = "shutdown_all_plugins" =>
    \A b \in Bridged(lastCall) :
      IF lastCall.in_loop_thread
      THEN /\ lastCall.hooks[b[1]].how = "scheduled"
           /\ lastCall.shutdowns[b[2]].pending
      ELSE /\ lastCall.hooks[b[1]].how = "returned"
           /\ ~lastCall.shutdowns[b[2]].pending
           /\ lastCall.shutdowns[b[2]].stopped >= 1

C20_Witness ==
  /\ lastCall.op = "shutdown_all_plugins"
  /\ lastCall.in_loop_thread
  /\ lastCall.hooks = << HookEvent("P", "async_stopping", "scheduled") >>
  /\ Len(lastCall.shutdowns) = 1
  /\ lastCall.shutdowns[1].plugin = "P" /\ lastCall.shutdowns[1].pending
  /\ callCount["P"]["shutdown"] = 1 /\ callCount["P"]["async_stopping"] = 0

\* ------------------------------------------------------------------------
\* properties of the Variables instance
\* ------------------------------------------------------------------------
\* the search order each placement policy documents, given the extra sources
PolicyOrder(env_placement, extras) ==
  IF env_placement = "TOP"
  THEN <<"_environment", "_local">> \o extras \o <<"_fallback_defaults">>
  ELSE IF env_placement = "BOTTOM"
  THEN <<"_local">> \o extras \o <<"_fallback_defaults", "_environment">>
  ELSE IF env_placement = "BOTTOM2"
  THEN <<"_local">> \o extras \o <<"_environment", "_fallback_defaults">>
  ELSE <<"_local">> \o extras \o <<"_fallback_defaults">>

\* the tiers of the order that contain the key, highest priority first
Holders(order, key) == SelectSeq(order, LAMBDA x : source_item(config, x, key) # NO_MATCH)

\* the value held by the highest-priority tier that contains the key
\* (None when no tier contains it)
HighestValue(key) ==
  IF Holders(PolicyOrder(config.env_placement, ExtraSources(config)), key) = << >>
  THEN PyNone
  ELSE source_item(config,
                   Head(Holders(PolicyOrder(config.env_placement, ExtraSources(config)), key)),
                   key)

\* a value passed through the type function registered for the key, if any
Typed(key, x) == IF config.type_fns[key] # None THEN Apply(config.type_fns[key], x) ELSE x

Contained(key) == Holders(config.sources, key) # << >>

\* C21 (as stated): under every placement policy and every assignment of
\* values to the tiers, get(k) returns the value held by the highest-priority
\* tier that contains k, in the order the policy documents
\* (environment-first: environment, local, extra sources, defaults;
\* local-first 1: local, extra sources, defaults, environment; local-first 2:
\* local, extra sources, environment, defaults; ignored: local, extra
\* sources, defaults)
C21_HighestTierValue ==
  \A k \in Keys :
    /\ Contained(k) => get(config, k) = HighestValue(k)
    /\ (lastOp.op = "get" /\ lastOp.key = k /\ Contained(k)) => lastOp.result = HighestValue(k)

\* C21 (amended): get(k) returns the value held by the highest-priority tier
\* that contains k, in the order the policy documents, passed through the
\* type function registered for k when there is one
C21_HighestTierValueTyped ==
  \A k \in Keys :
    /\ Contained(k) => get(config, k) = Typed(k, HighestValue(k))
    /\ (lastOp.op = "get" /\ lastOp.key = k /\ Contained(k))
          => lastOp.result = Typed(k, HighestValue(k))

\* C21 witness: a get under the first local-first variant found the key in
\* the environment, in the fallback defaults and in an extra source, and
\* returned the extra source's value
C21_Witness ==
  /\ lastOp.op = "get"
  /\ config.env_placement = "BOTTOM"
  /\ os_environ[upper(lastOp.key)] # NO_MATCH
  /\ config.fallback_defaults[lastOp.key] # NO_MATCH
  /\ config.local[lastOp.key] = NO_MATCH
  /\ ExtraSources(config) = <<"D0", "D2">>
  /\ config.type_fns[lastOp.key] = None
  /\ lastOp.result = Str(2)

\* C22 (as stated): under every placement policy in which the environment
\* is not the top-priority source, get(k) right after set(k, v) returns v,
\* whatever the environment, the extra sources and the fallback defaults hold
C22_SetGetRoundTrip ==
  (lastOp.op = "set" /\ config.env_placement # "TOP")
     => get(config, lastOp.key) = lastOp.value

\* C22 (amended): under every placement policy in which the environment is
\* not the top-priority source, get(k) right after set(k, v) returns v passed
\* through the type function registered for k when there is one, and v itself
\* otherwise, whatever the environment, the extra sources and the fallback
\* defaults hold
C22_SetGetRoundTripTyped ==
  (lastOp.op = "set" /\ config.env_placement # "TOP")
     => get(config, lastOp.key) = Typed(lastOp.key, lastOp.value)

\* C22 witness: a set under a local-first policy while the environment, an
\* extra source and the fallback defaults all hold the key
C22_Witness ==
  /\ lastOp.op = "set"
  /\ config.env_placement \in {"BOTTOM", "BOTTOM2"}
  /\ os_environ[upper(lastOp.key)] # NO_MATCH
  /\ config.fallback_defaults[lastOp.key] # NO_MATCH
  /\ "D1" \in SeqElems(config.sources)
  /\ config.type_fns[lastOp.key] # None
  /\ get(config, lastOp.key) = PyInt(lastOp.value.v)

\* only the fallback defaults contain the key
OnlyDefault(key) ==
  /\ config.fallback_defaults[key] # NO_MATCH
  /\ \A i \in 1..Len(config.sources) :
       config.sources[i] # "_fallback_defaults"
          => source_item(config, config.sources[i], key) = NO_MATCH

\* C23 (as stated): a default supplied on a get or environ call is
\* registered in the fallback defaults, and a read without a default
\* returns it when no other source contains the key
C23_DefaultRegistered ==
  (lastOp.op \in {"get", "environ"} /\ lastOp.default \notin {NOT_SET, PyNone})
     => /\ config.fallback_defaults[lastOp.key] = lastOp.default
        /\ OnlyDefault(lastOp.key) => get(config, lastOp.key) = lastOp.default

\* C23 (amended): a default supplied on an environ call is registered in
\* the fallback defaults (a default supplied on get is not), and whenever
\* only the fallback defaults contain a key, a read without a default returns
\* the registered default, passed through the key's type function when there
\* is one
C23_EnvironDefaultRegistered ==
  /\ (lastOp.op = "environ" /\ lastOp.default # NOT_SET)
        => config.fallback_defaults[lastOp.key] = lastOp.default
  /\ \A k \in Keys :
       OnlyDefault(k) => get(config, k) = Typed(k, config.fallback_defaults[k])

\* C23 witness: an environ call registered a default for a key that no
\* other source contains, and the read without a default returns it
C23_Witness ==
  /\ lastOp.op = "environ"
  /\ lastOp.default = Str(6)
  /\ OnlyDefault(lastOp.key)
  /\ get(config, lastOp.key) = Str(6)

\* the values of a dict given as a set of (key, value) items
ItemValues(items) == {it[2] : it \in items}

\* C24: once a type function f is registered for k, every read of k through
\* get, environ, get_by_prefix and export_all_variables returns f(r), r being
\* the value of the highest-priority tier that contains k
C24_TypeFnApplied ==
  \A k \in Keys :
    (config.type_fns[k] # None /\ Contained(k))
       => /\ get(config, k) = Apply(config.type_fns[k], HighestValue(k))
          /\ environ(config, k, NOT_SET, None).value = Apply(config.type_fns[k], HighestValue(k))
          /\ \A it \in export_all_variables(config) \cup get_by_prefix(config, "app") :
               it[1] \in {k, lower(removeprefix(k, "app_"))}
                  => it[2] = Apply(config.type_fns[k], HighestValue(k))
          /\ (lastOp.op \in {"get", "environ"} /\ lastOp.key = k)
                => lastOp.result = Apply(config.type_fns[k], HighestValue(k))
          /\ lastOp.op \in {"get_by_prefix", "export_all_variables"}
                => ItemValues(lastOp.items) \subseteq {Apply(config.type_fns[k], HighestValue(k))}

\* C24 witness: get_by_prefix returned the int made of the environment's
\* str under the environment-first policy
C24_Witness ==
  /\ lastOp.op = "get_by_prefix"
  /\ config.env_placement = "TOP"
  /\ config.local["app_a"] # NO_MATCH
  /\ lastOp.items = {<<"a", PyInt(7)>>}

C26_DuplicateRaises ==
  [][lastCall'.op = "register_plugin"
       => /\ pr[PluginClass[lastCall'.arg].name] \notin {None, lastCall'.arg}
               => /\ lastCall'.err = "DuplicatePluginDefinition"
                  /\ UNCHANGED <<pr, eir, eor, er, startupOrder>>
          /\ pr[PluginClass[lastCall'.arg].name] = lastCall'.arg
               => lastCall'.err # "DuplicatePluginDefinition"]_vars

\* no registered plugin of the extension point has is_enabled true
NoEnabledAt(e) ==
  \A n \in AppNames :
    (pr[n] # None /\ extension_point_name(pr[n]) = e) => ~is_enabled(pr[n])

\* C27 (as stated): get_extension(name) raises the unknown-extension-point
\* error, and initializes and commits nothing, whenever no registered plugin
\* of that point has is_enabled true
C27_UnknownWhenNoneEnabled ==
  [][(lastCall'.op = "get_extension" /\ NoEnabledAt(lastCall'.arg))
       => /\ lastCall'.err = "UnknownExtensionPoint"
          /\ lastCall'.calls = << >>
          /\ UNCHANGED <<er, eor, startupOrder, initialized, collected>>]_vars

\* C27 (amended): get_extension(name) raises the unknown-extension-point
\* error, and initializes and commits nothing, whenever the point has no
\* committed entry and no registered plugin of that point has is_enabled true
C27_UnknownWhenNoneEnabledNorCommitted ==
  [][(lastCall'.op = "get_extension" /\ er[lastCall'.arg] = NoHit /\ NoEnabledAt(lastCall'.arg))
       => /\ lastCall'.err = "UnknownExtensionPoint"
          /\ lastCall'.calls = << >>
          /\ UNCHANGED <<er, eor, startupOrder, initialized, collected>>]_vars

\* C27 witness: get_extension("c") raised with two plugins registered at
\* "c", both disabled, one of them once enabled, and nothing committed
C27_Witness ==
  /\ lastCall.op = "get_extension"
  /\ lastCall.arg = "c"
  /\ lastCall.err = "UnknownExtensionPoint"
  /\ pr["K"] = "K" /\ ~enabled["K"]
  /\ pr["J"] = "J" /\ ~enabled["J"]
  /\ er["c"] = NoHit
  /\ ~initialized["K"] /\ ~initialized["J"]

\* C28: once a single-mode extension point has a committed (plugin, value)
\* entry the entry never changes, and every later get_extension of the point
\* returns the committed value, whatever is_enabled flips and registrations
\* happen in between
C28_CommittedNeverChanges ==
  [][/\ \A e \in Exts : er[e] # NoHit => er'[e] = er[e]
     /\ (lastCall'.op = "get_extension" /\ er[lastCall'.arg] # NoHit)
           => /\ lastCall'.err = NoErr
              /\ lastCall'.value = er[lastCall'.arg].value]_vars

\* C28 witness: K was committed at "c", then K was disabled, J enabled and
\* registered, and get_extension("c") still returns the value of K
C28_Witness ==
  /\ lastCall.op = "get_extension"
  /\ lastCall.arg = "c"
  /\ lastCall.value = "vK"
  /\ er["c"] = [plugin |-> "K", value |-> "vK"]
  /\ ~enabled["K"]
  /\ pr["J"] = "J" /\ enabled["J"]
  /\ "J" \in SeqElems(eir["c"])

\* C29: the startup-order list contains only plugins whose initialize has
\* run; a plugin committed lazily without being initialized is not in it
C29_StartupOrderInitialized ==
  \A i \in 1..Len(startupOrder) :
    /\ initialized[startupOrder[i]]
    /\ callCount[startupOrder[i]]["initialize"] > 0

\* C30: the value shutdown_all_plugins passes to a plugin's shutdown is the
\* value the plugin's initialize returned, in single and in multi mode, also
\* when is_enabled of the plugin changed between initialization and shutdown
C30_ShutdownGetsInitializeValue ==
  lastCall.op = "shutdown_all_plugins"
     => \A i \in 1..Len(lastCall.shutdowns) :
          lastCall.shutdowns[i].value = PluginClass[pr[lastCall.shutdowns[i].plugin]].value

\* C34: every read of key k that is not a local-only read (get, environ)
\* adds k to the known keys, whether or not any source contains k, and a
\* local-only read never adds k to the known keys
C34_ReadsRecordKey ==
  [][/\ lastOp'.op \in {"get", "environ"} => lastOp'.key \in config'.keys
     /\ lastOp'.op = "get_local" => config'.keys = config.keys]_vars

\* source[key] would find the key: a dict holds it; a Variables instance
\* finds it in its own tiers, here the process environment
contains(c, source, key) ==
  IF source \in SourceVariables THEN os_environ[upper(key)] # NO_MATCH
  ELSE source_item(c, source, key) # NO_MATCH

\* C35: a source that does not contain key k is skipped and the lookup goes
\* on with the lower-priority sources and the fallback defaults, also when
\* the source is another Variables instance passed to the constructor or to
\* add_source: when no source but the fallback defaults contains k, get(k)
\* returns the registered default (passed through the type function of k)
C35_MissingSourceSkipped ==
  \A k \in Keys :
    ( /\ config.fallback_defaults[k] # NO_MATCH
      /\ \A i \in 1..Len(config.sources) :
           config.sources[i] # "_fallback_defaults" => ~contains(config, config.sources[i], k) )
    => get(config, k) = Typed(k, config.fallback_defaults[k])

\* ------------------------------------------------------------------------
\* properties of the registries after a call, of failed initializations
\* and of shared dependencies
\* ------------------------------------------------------------------------
\* plugin n has a committed value entry: it owns its extension point, or it
\* has an initialized entry among the multi options of the point
HasValueEntry(n) ==
  \/ er[ClassOf(pr, n).ext].plugin = n
  \/ /\ DictHas(eor[ClassOf(pr, n).ext], n)
     /\ DictGet(eor[ClassOf(pr, n).ext], n) # NOT_INIT

\* C37: after any registry operation returns or raises, every plugin marked
\* initialized is in the startup-order list and has a committed value entry
C37_InitializedIsTracked ==
  \A n \in AppNames :
    initialized[n] => (n \in SeqElems(startupOrder) /\ HasValueEntry(n))

\* C40: in a shutdown_all_plugins pass with automatic bridging, the shutdown
\* of a plugin is called also when the plugin's own async_stopping hook
\* raised or timed out
C40_ShutdownAfterFailedStopping ==
  lastCall.op = "shutdown_all_plugins" =>
    \A k \in 1..Len(lastCall.hooks) :
      (lastCall.hooks[k].hook = "async_stopping" /\ lastCall.hooks[k].how \in {"raised", "timeout"})
         => lastCall.hooks[k].plugin \in ShutDown(lastCall)

\* the plugins in progress when the circular-dependency error was raised:
\* the registered plugins of the extension points in the history of the error
InCycle(call) ==
  {n \in AppNames : pr[n] # None /\ ClassOf(pr, n).ext \in call.history}

\* C38: when initialization fails with the circular-dependency error, no
\* plugin that is part of the cycle is marked collected or initialized,
\* committed to its extension point or in the startup-order list
C38_CycleLeavesNoTrace ==
  lastCall.err = "CircularDependency" =>
    \A n \in InCycle(lastCall) :
      /\ ~collected[n] /\ ~initialized[n]
      /\ callCount[n]["initialize"] = 0
      /\ er[ClassOf(pr, n).ext] = NoHit
      /\ n \notin SeqElems(startupOrder)

\* C38 witness: the initialization of H ran into the cycle of E and F after
\* the dependency A of E had been initialized and committed
C38_Witness ==
  /\ lastCall.op = "register_plugin" /\ lastCall.arg = "H" /\ lastCall.init
  /\ lastCall.err = "CircularDependency"
  /\ lastCall.history = {"h", "e", "f"}
  /\ CallNames(lastCall.calls) = <<"A">>
  /\ startupOrder = <<"A">>

\* d needs b and c, which both need a; the four are eager sole owners
Diamond(reg, cands, a, b, c, d) ==
  /\ Cardinality({a, b, c, d}) = 4
  /\ \A n \in {a, b, c, d} : SoleOwner(reg, cands, n) /\ ClassOf(reg, n).eager
  /\ get_dependencies(reg[d]) = <<ClassOf(reg, b).ext, ClassOf(reg, c).ext>>
  /\ get_dependencies(reg[b]) = <<ClassOf(reg, a).ext>>
  /\ get_dependencies(reg[c]) = <<ClassOf(reg, a).ext>>
  /\ get_dependencies(reg[a]) = << >>

\* x and y are in the list, x before y
Precedes(q, x, y) == \E i, j \in 1..Len(q) : i < j /\ q[i] = x /\ q[j] = y

\* C39: shared dependencies are not mistaken for cycles.  When D needs B and
\* C, and B and C both need A, a call that initializes D raises no error,
\* the initialize of A has run exactly once, and A precedes B and C, which
\* precede D, in the startup-order list
C39_DiamondIsNoCycle ==
  [][\A d \in AppNames :
       (Initializes(lastCall', pr', eir', d) \/ lastCall'.op = "init_all_plugins") =>
         \A a, b, c \in AppNames :
           Diamond(pr', eir', a, b, c, d)
           => /\ lastCall'.err = NoErr
              /\ callCount'[a]["initialize"] = 1
              /\ \A n \in {a, b, c, d} :
                   Cardinality({i \in 1..Len(startupOrder') : startupOrder'[i] = n}) = 1
              /\ Precedes(startupOrder', a, b) /\ Precedes(startupOrder', a, c)
              /\ Precedes(startupOrder', b, d) /\ Precedes(startupOrder', c, d)]_vars

\* C39 witness: get_extension of the point of O initialized the whole
\* diamond, A once
C39_Witness ==
  /\ lastCall.op = "get_extension" /\ lastCall.arg = "o"
  /\ lastCall.err = NoErr /\ lastCall.value = "vO"
  /\ CallNames(lastCall.calls) = <<"A", "B", "N", "O">>
  /\ startupOrder = <<"A", "B", "N", "O">>
  /\ callCount["A"]["initialize"] = 1

\* C36: instance isolation.  A registry operation called with an explicit
\* Variables instance v (register_plugin, get_extension by name or by plugin
\* type, get_extensions by name or by plugin type, init_all_plugins,
\* shutdown_all_plugins) leaves the plugin registry, the candidate sets, the
\* committed extension points and the startup-order list of the default
\* instance unchanged
C36_DefaultInstanceUntouched ==
  [][/\ defaultInstance'.pr = defaultInstance.pr
     /\ defaultInstance'.eir = defaultInstance.eir
     /\ defaultInstance'.er = defaultInstance.er
     /\ defaultInstance'.order = defaultInstance.order]_vars

\* ------------------------------------------------------------------------
\* the switches of the automatic bridging
\* ------------------------------------------------------------------------
\* a hook of plugin n is neither entered nor handed to the loop by the step,
\* and its guard flag is left as it was
HookUntouched(n, hook) ==
  /\ callCount'[n][hook] = callCount[n][hook]
  /\ hookCalled'[hook][n] = hookCalled[hook][n]
  /\ \A k \in 1..Len(lastCall'.hooks) : lastCall'.hooks[k].plugin # n

\* the automatic bridging is off for a call without async_enabled: the global
\* setting is off, or no open loop is captured
Gated == ~asyncAuto \/ loop # "open"

SyncOps == {"register_plugin", "get_extension", "get_extensions", "init_all_plugins",
            "shutdown_all_plugins"}

\* C31: the automatic bridging is gated.  When the global setting is off, or
\* no loop is captured, or the captured loop is closed or was cleared, a call
\* (made without async_enabled) that runs the initialize or the shutdown of a
\* plugin enters and schedules neither hook of it and leaves its guard flags
\* as they were, and hands nothing to the loop; an explicit driver that
\* ends in such a state has still entered the hook of every initialized
\* plugin of the list whose flag was not set.
C31_BridgingIsGated ==
  [][/\ \A n \in AppNames :
          ( /\ Gated
            /\ lastCall'.op \in SyncOps /\ lastCall'.arg \notin ExplicitAsyncArgs
            /\ \/ callCount'[n]["initialize"] > callCount[n]["initialize"]
               \/ callCount'[n]["shutdown"] > callCount[n]["shutdown"] )
          => /\ HookUntouched(n, "async_ready")
             /\ HookUntouched(n, "async_stopping")
             /\ tasks' = tasks
     /\ ( /\ Gated
          /\ lastCall'.op \in DriverOps /\ Len(drivers') < Len(drivers) )
        => \A i \in 1..lastCall'.seen :
             initialized'[startupOrder'[i]] =>
               \/ startupOrder'[i] \in Entered(lastCall')
               \/ hookCalled[HookOf(lastCall'.op)][startupOrder'[i]]]_vars

\* P was initialized and shut down with the bridging gated (its async_ready
\* was never entered, its async_stopping only by the explicit driver)
C31_Witness ==
  /\ ~asyncAuto /\ loop = "open"
  /\ initialized["P"] /\ callCount["P"]["shutdown"] = 1
  /\ callCount["P"]["async_ready"] = 0 /\ ~hookCalled["async_ready"]["P"]
  /\ lastCall.op = "async_plugins_stopping"
  /\ lastCall.hooks = << HookEvent("P", "async_stopping", "entered"),
                         HookEvent("P", "async_stopping", "returned") >>
  /\ hookCalled["async_stopping"]["P"]

\* C32: the async_enabled argument overrides the global setting for the whole
\* call.  No plugin whose initialize runs during init_all_plugins(v,
\* async_enabled=False), the plugins initialized as dependencies included,
\* has its async_ready hook entered or scheduled or its guard flag set; no
\* plugin shut down by shutdown_all_plugins(v, async_enabled=False) has its
\* async_stopping hook entered or scheduled or its flag set.
C32_AsyncEnabledOverrides ==
  [][\A n \in AppNames :
       /\ ( /\ lastCall'.op = "init_all_plugins" /\ lastCall'.arg = "False"
            /\ callCount'[n]["initialize"] > callCount[n]["initialize"] )
          => HookUntouched(n, "async_ready")
       /\ ( /\ lastCall'.op = "shutdown_all_plugins" /\ lastCall'.arg = "False"
            /\ callCount'[n]["shutdown"] > callCount[n]["shutdown"] )
          => HookUntouched(n, "async_stopping")]_vars

\* ------------------------------------------------------------------------
\* schedule_async_shutdown
\* ------------------------------------------------------------------------
\* the step is a call of schedule_async_shutdown that changed something
ScheduleStep ==
  /\ lastCall'.op = "schedule_async_shutdown"
  /\ \/ lastCall' # lastCall
     \/ Len(tasks') > Len(tasks)
     \/ tasks' = tasks /\ Len(drivers') > Len(drivers)

\* the log of a driver that ran to its end: every hook it entered is over
RanToCompletion(log) ==
  /\ Len(log) % 2 = 0
  /\ \A k \in 1..Len(log) :
       IF k % 2 = 1 THEN log[k].how = "entered"
       ELSE log[k].how \in {"returned", "raised"} /\ log[k].plugin = log[k - 1].plugin

\* C33: schedule_async_shutdown never raises and returns True or False.  It
\* returns True only when the stopping driver ran to its end on the captured
\* open loop during the call (every hook it entered is over, every
\* initialized plugin was entered or has its flag set, nothing is left
\* running).  Without a captured loop, or with a closed one, it returns
\* False and runs nothing.  When it returns False on a timeout, exactly one
\* driver coroutine is left with the loop (it is started once, not again),
\* either not started yet or suspended in the hook that outlasted the
\* timeout, which stays entered and in flight.
C33_ScheduleShutdown ==
  [][ScheduleStep =>
       /\ lastCall'.err = NoErr
       /\ lastCall'.value \in {"True", "False"}
       /\ \A n \in AppNames : callCount'[n]["async_stopping"] <= callCount[n]["async_stopping"] + 1
       /\ lastCall'.value = "True" =>
            /\ loop = "open"
            /\ drivers' = drivers /\ tasks' = tasks
            /\ RanToCompletion(lastCall'.hooks)
            /\ \A i \in 1..Len(startupOrder) :
                 initialized[startupOrder[i]] =>
                   \/ startupOrder[i] \in Entered(lastCall')
                   \/ hookCalled["async_stopping"][startupOrder[i]]
       /\ loop # "open" =>
            /\ lastCall'.value = "False"
            /\ callCount' = callCount /\ hookCalled' = hookCalled
            /\ drivers' = drivers /\ tasks' = tasks
       /\ (lastCall'.value = "False" /\ loop = "open") =>
            \/ /\ tasks' = Append(tasks, [plugin |-> None, hook |-> "async_stopping"])
               /\ drivers' = drivers /\ callCount' = callCount
            \/ /\ tasks' = tasks
               /\ Len(drivers') = Len(drivers) + 1
               /\ LET d == drivers'[Len(drivers')]
                  IN /\ d.awaiting # None
                     /\ PluginClass[pr[d.awaiting]]["async_stopping"] = "slow"
                     /\ callCount'[d.awaiting]["async_stopping"] =
                          callCount[d.awaiting]["async_stopping"] + 1
                     /\ ~hookCalled'["async_stopping"][d.awaiting]]_vars

\* a call timed out in W's hook and returned False; the hook went on and
\* returned later; a second call then ran the driver to its end over P
C33_Witness ==
  /\ lastCall.op = "schedule_async_shutdown"
  /\ lastCall.value = "True"
  /\ startupOrder = <<"W", "P">>
  /\ lastCall.hooks = << HookEvent("P", "async_stopping", "entered"),
                         HookEvent("P", "async_stopping", "returned") >>
  /\ hookCalled["async_stopping"]["W"] /\ callCount["W"]["async_stopping"] = 1

====
